---------------------------- MODULE Spec2Model ----------------------------
(***************************************************************************)
(* Model of the TrustScore calculator (backend/src/trustscore/calculator.py)*)
(* and of the UCC filing normalizer                                        *)
(* (backend/src/scoring/ucc-filings-flow/ucc_normalizer.py).               *)
(*                                                                         *)
(* Conventions.                                                            *)
(*  - A Python str is a sequence of one-character strings.                 *)
(*  - A Python value that may be None, or a dict key that may be missing,  *)
(*    is a record [tag, s]: tag "str" (s the text), "none" or "absent".    *)
(*  - A date-time is a day number (days since 1970-01-01, UTC); the time   *)
(*    of day of a parsed string is validated but not kept.                 *)
(*  - A float is a fixed-point integer: scores, weights and ages are in    *)
(*    thousandths (Milli); exp, ln, the time decay and the confidence      *)
(*    score are in ten-thousandths (E4).                                   *)
(*  - The clock is read after midnight and the dates of the inputs are at  *)
(*    midnight, so timedelta.days is the difference of the day numbers.    *)
(***************************************************************************)
EXTENDS Integers, Sequences, FiniteSets, TLC

VARIABLES
  nFlow,    \* normalize_ucc_filings: the flow_result argument
  nState,   \* normalize_ucc_filings: the state argument
  nOut,     \* normalize_ucc_filings: the returned list
  nPc,      \* "ready" before the call, "done" after it returns
  sIn,      \* _normalize_status: the status argument (str or None)
  sOnce,    \* _normalize_status(sIn)
  sTwice,   \* _normalize_status(sOnce)
  sPc,      \* "in", "once", "twice"
  cArgus,   \* _calculate_fleet_certification_score: argus_rating
  cWyvern,  \* _calculate_fleet_certification_score: wyvern_rating
  cArgus2,  \* cArgus in another letter case
  cWyvern2, \* cWyvern in another letter case
  cCsf,     \* the score of (cArgus, cWyvern)
  cCsf2,    \* the score of (cArgus2, cWyvern2)
  cPc,      \* "in", "one", "two"
  now,      \* datetime.now(timezone.utc), as a day number
  inp,      \* per call of calculate_trust_score: fleet_data, tail_data, llm_client
  pc,       \* per call: where the coroutine stands
  llm,      \* per call: the get_completion request in flight
  loc,      \* per call: the local variables of the coroutine
  ret,      \* per call: the returned dict
  pFn,      \* the function applied to one argument: its name
  pArg,     \* the argument
  pOut,     \* the value returned
  pPc,      \* "in" before the call, "out" after it returns
  rMax,     \* _retry_with_backoff: max_retries
  rK,       \* the number of calls of func that raise before one returns
  rAttempt, \* the loop variable attempt
  rCalls,   \* how often func has been called
  rSlept,   \* the sum of the delays slept
  rOut,     \* the result returned or the exception raised, by the call that gave it
  rPc,      \* "try", "sleep", "returned", "raised"
  vNtsb,    \* verify_ucc_filings: the State value of each NTSB result
  vFaa,     \* faa_state
  vQueue,   \* states_to_process
  vIdx,     \* the position of the loop in states_to_process
  vVisited, \* visited_states
  vPc       \* "start", "next", "retrying", "wait", "closed"

normVars ==
  << nFlow, nState, nOut, nPc >>

statusVars ==
  << sIn, sOnce, sTwice, sPc >>

certVars ==
  << cArgus, cWyvern, cArgus2, cWyvern2, cCsf, cCsf2, cPc >>

calcVars ==
  << now, inp, pc, llm, loc, ret >>

probeVars ==
  << pFn, pArg, pOut, pPc >>

uccVars ==
  << rMax, rK, rAttempt, rCalls, rSlept, rOut, rPc,
     vNtsb, vFaa, vQueue, vIdx, vVisited, vPc >>

vars ==
  << normVars, statusVars, certVars, calcVars, probeVars, uccVars >>

----------------------------------------------------------------------------
(* Python str helpers                                                      *)

Lowers ==
  << "a","b","c","d","e","f","g","h","i","j","k","l","m",
     "n","o","p","q","r","s","t","u","v","w","x","y","z" >>

Uppers ==
  << "A","B","C","D","E","F","G","H","I","J","K","L","M",
     "N","O","P","Q","R","S","T","U","V","W","X","Y","Z" >>

DigitChars ==
  << "0","1","2","3","4","5","6","7","8","9" >>

IndexIn(seq, c) ==
  IF \E i \in 1..Len(seq) : seq[i] = c
    THEN CHOOSE i \in 1..Len(seq) : seq[i] = c
    ELSE 0

LowerCh(c) ==
  IF IndexIn(Uppers, c) > 0 THEN Lowers[IndexIn(Uppers, c)] ELSE c

UpperCh(c) ==
  IF IndexIn(Lowers, c) > 0 THEN Uppers[IndexIn(Lowers, c)] ELSE c

\* str.lower()
StrLower(s) ==
  [i \in 1..Len(s) |-> LowerCh(s[i])]

\* str.upper()
StrUpper(s) ==
  [i \in 1..Len(s) |-> UpperCh(s[i])]

IsSpace(c) ==
  c = " "

\* str.strip()
Strip(s) ==
  IF \A i \in 1..Len(s) : IsSpace(s[i])
    THEN << >>
    ELSE LET first == CHOOSE i \in 1..Len(s) :
                        /\ ~IsSpace(s[i])
                        /\ \A j \in 1..(i-1) : IsSpace(s[j])
             last  == CHOOSE i \in 1..Len(s) :
                        /\ ~IsSpace(s[i])
                        /\ \A j \in (i+1)..Len(s) : IsSpace(s[j])
         IN  SubSeq(s, first, last)

\* str.capitalize(): first character upper-cased, the rest lower-cased
Capitalize(s) ==
  IF s = << >> THEN << >>
  ELSE << UpperCh(s[1]) >> \o StrLower(Tail(s))

\* needle in haystack (Python substring test)
Contains(haystack, needle) ==
  \E i \in 1..(Len(haystack) - Len(needle) + 1) :
    SubSeq(haystack, i, i + Len(needle) - 1) = needle

\* str.replace(old, new) for a one-character old
ReplaceCh(s, old, new) ==
  LET F[i \in 0..Len(s)] ==
        IF i = 0 THEN << >>
        ELSE F[i-1] \o (IF s[i] = old THEN new ELSE << s[i] >>)
  IN  F[Len(s)]

\* str.split(sep) for a one-character sep
SplitCh(s, sep) ==
  LET F[i \in 0..Len(s)] ==
        IF i = 0 THEN << << >> >>
        ELSE IF s[i] = sep THEN F[i-1] \o << << >> >>
        ELSE [F[i-1] EXCEPT ![Len(F[i-1])] = @ \o << s[i] >>]
  IN  F[Len(s)]

IsDigit(c) ==
  IndexIn(DigitChars, c) > 0

AllDigits(s) ==
  /\ Len(s) > 0
  /\ \A i \in 1..Len(s) : IsDigit(s[i])

\* value of a string of decimal digits
DigitsVal(s) ==
  LET F[i \in 0..Len(s)] ==
        IF i = 0 THEN 0 ELSE F[i-1] * 10 + (IndexIn(DigitChars, s[i]) - 1)
  IN  F[Len(s)]

\* int(s): surrounding blanks and one sign are accepted, then digits only.
\* ok = FALSE stands for ValueError.
PyInt(s) ==
  LET t    == Strip(s)
      sign == IF t # << >> /\ t[1] \in {"+", "-"} THEN t[1] ELSE ""
      body == IF sign = "" THEN t ELSE Tail(t)
  IN  IF AllDigits(body)
        THEN [ok |-> TRUE,
              val |-> IF sign = "-" THEN 0 - DigitsVal(body) ELSE DigitsVal(body)]
        ELSE [ok |-> FALSE, val |-> 0]

\* f"{n:0{w}d}" for n >= 0
ZeroPad(n, w) ==
  LET F[k \in 0..w] ==
        IF k = 0 THEN << >>
        ELSE F[k-1] \o << DigitChars[((n \div (10 ^ (w - k))) % 10) + 1] >>
      wide == IF n >= 10 ^ w THEN w + 1 ELSE w
  IN  IF n >= 10 ^ w
        THEN LET G[k \in 0..wide] ==
                   IF k = 0 THEN << >>
                   ELSE G[k-1] \o << DigitChars[((n \div (10 ^ (wide - k))) % 10) + 1] >>
             IN  G[wide]
        ELSE F[w]

----------------------------------------------------------------------------
(* Python values: str, None, missing dict key                              *)

PyStr(s) ==
  [tag |-> "str", s |-> s]

PyNone ==
  [tag |-> "none", s |-> << >>]

Absent ==
  [tag |-> "absent", s |-> << >>]

\* bool(v) for a str or None
Truthy(v) ==
  v.tag = "str" /\ v.s # << >>

\* dict.get(key, default)
DictGet(d, key, default) ==
  IF d[key].tag = "absent" THEN default ELSE d[key]

\* a or b
PyOr(a, b) ==
  IF Truthy(a) THEN a ELSE b

----------------------------------------------------------------------------
(* datetime: calendar arithmetic and the three parsers the code uses       *)

IsLeap(y) ==
  (y % 4 = 0 /\ y % 100 # 0) \/ y % 400 = 0

DaysInMonth(y, m) ==
  IF m = 2 THEN (IF IsLeap(y) THEN 29 ELSE 28)
  ELSE IF m \in {4, 6, 9, 11} THEN 30 ELSE 31

ValidDate(y, m, d) ==
  /\ y \in 1..9999
  /\ m \in 1..12
  /\ d \in 1..DaysInMonth(y, m)

\* days from 1970-01-01 to y-m-d (proleptic Gregorian calendar)
DaysFromCivil(y, m, d) ==
  LET yy  == IF m <= 2 THEN y - 1 ELSE y
      era == yy \div 400
      yoe == yy - era * 400
      mp  == IF m > 2 THEN m - 3 ELSE m + 9
      doy == (153 * mp + 2) \div 5 + d - 1
      doe == yoe * 365 + yoe \div 4 - yoe \div 100 + doy
  IN  era * 146097 + doe - 719468

\* the inverse of DaysFromCivil
CivilFromDays(z0) ==
  LET z   == z0 + 719468
      era == z \div 146097
      doe == z - era * 146097
      yoe == (doe - doe \div 1460 + doe \div 36524 - doe \div 146096) \div 365
      doy == doe - (365 * yoe + yoe \div 4 - yoe \div 100)
      mp  == (5 * doy + 2) \div 153
      d   == doy - (153 * mp + 2) \div 5 + 1
      m   == IF mp < 10 THEN mp + 3 ELSE mp - 9
      y   == yoe + era * 400 + (IF m <= 2 THEN 1 ELSE 0)
  IN  [y |-> y, m |-> m, d |-> d]

\* a parse result: ok = FALSE stands for ValueError; aware = tzinfo is set
NoDate ==
  [ok |-> FALSE, day |-> 0, aware |-> FALSE]

MkDate(y, m, d, aware) ==
  IF ValidDate(y, m, d)
    THEN [ok |-> TRUE, day |-> DaysFromCivil(y, m, d), aware |-> aware]
    ELSE NoDate

TwoDigitsAt(s, i) ==
  IF Len(s) >= i + 1 /\ IsDigit(s[i]) /\ IsDigit(s[i+1])
    THEN DigitsVal(SubSeq(s, i, i + 1))
    ELSE 0 - 1

\* the time part of an ISO string, after the separator:
\* HH:MM or HH:MM:SS, then nothing or an offset +HH:MM / -HH:MM
IsoTimePart(r) ==
  LET hh     == TwoDigitsAt(r, 1)
      mm     == TwoDigitsAt(r, 4)
      hasSec == Len(r) >= 6 /\ r[6] = ":"
      ss     == IF hasSec THEN TwoDigitsAt(r, 7) ELSE 0
      used   == IF hasSec THEN 8 ELSE 5
      tz     == SubSeq(r, used + 1, Len(r))
      okTime == /\ Len(r) >= 5
                /\ r[3] = ":"
                /\ hh \in 0..23
                /\ mm \in 0..59
                /\ ss \in 0..59
      okTz   == /\ Len(tz) = 6
                /\ tz[1] \in {"+", "-"}
                /\ tz[4] = ":"
                /\ TwoDigitsAt(tz, 2) \in 0..23
                /\ TwoDigitsAt(tz, 5) \in 0..59
  IN  [ok    |-> okTime /\ (tz = << >> \/ okTz),
       aware |-> okTime /\ tz # << >> /\ okTz]

\* the shape NNNN-NN-NN of the first ten characters
IsoDateShape(s) ==
  /\ Len(s) >= 10
  /\ AllDigits(SubSeq(s, 1, 4))
  /\ s[5] = "-"
  /\ AllDigits(SubSeq(s, 6, 7))
  /\ s[8] = "-"
  /\ AllDigits(SubSeq(s, 9, 10))

\* the date of a parsed ISO string joined with its time part t
IsoDateTime(date, t) ==
  IF date.ok /\ t.ok THEN [date EXCEPT !.aware = t.aware] ELSE NoDate

\* datetime.fromisoformat(s): YYYY-MM-DD, optionally one separator character
\* and a time part. A string without an offset gives a naive datetime.
FromIsoformat(s) ==
  IF ~IsoDateShape(s) \/ Len(s) = 11 THEN NoDate
  ELSE IsoDateTime(
         MkDate(DigitsVal(SubSeq(s, 1, 4)), DigitsVal(SubSeq(s, 6, 7)),
                DigitsVal(SubSeq(s, 9, 10)), FALSE),
         IF Len(s) = 10 THEN [ok |-> TRUE, aware |-> FALSE]
         ELSE IsoTimePart(SubSeq(s, 12, Len(s))))

\* datetime.strptime(s, "%m/%d/%Y"): naive
StrptimeMDY(s) ==
  LET p == SplitCh(s, "/")
  IN  IF /\ Len(p) = 3
         /\ AllDigits(p[1]) /\ Len(p[1]) \in 1..2
         /\ AllDigits(p[2]) /\ Len(p[2]) \in 1..2
         /\ AllDigits(p[3]) /\ Len(p[3]) = 4
        THEN MkDate(DigitsVal(p[3]), DigitsVal(p[1]), DigitsVal(p[2]), FALSE)
        ELSE NoDate

\* datetime.strptime(s, "%Y-%m-%d"): naive
StrptimeYMD(s) ==
  LET p == SplitCh(s, "-")
  IN  IF /\ Len(p) = 3
         /\ AllDigits(p[1]) /\ Len(p[1]) = 4
         /\ AllDigits(p[2]) /\ Len(p[2]) \in 1..2
         /\ AllDigits(p[3]) /\ Len(p[3]) \in 1..2
        THEN MkDate(DigitsVal(p[1]), DigitsVal(p[2]), DigitsVal(p[3]), FALSE)
        ELSE NoDate

\* dt.strftime("%Y-%m-%d")
StrftimeYMD(day) ==
  LET c == CivilFromDays(day)
  IN  ZeroPad(c.y, 4) \o << "-" >> \o ZeroPad(c.m, 2) \o << "-" >> \o ZeroPad(c.d, 2)

----------------------------------------------------------------------------
(* UCC filing normalizer (ucc_normalizer.py)                               *)

UnknownStr ==
  << "U","n","k","n","o","w","n" >>

ActiveWords ==
  { << "a","c","t","i","v","e" >>,
    << "f","i","l","e","d" >>,
    << "c","u","r","r","e","n","t" >>,
    << "v","a","l","i","d" >> }

LapsedWords ==
  { << "l","a","p","s","e","d" >>,
    << "e","x","p","i","r","e","d" >>,
    << "i","n","a","c","t","i","v","e" >> }

TerminatedWords ==
  { << "t","e","r","m","i","n","a","t","e","d" >>,
    << "c","a","n","c","e","l","l","e","d" >>,
    << "d","i","s","c","h","a","r","g","e","d" >>,
    << "r","e","l","e","a","s","e","d" >> }

\* _normalize_status with "inactive" left out of the lapsed variations
NormalizeStatusInactive(status) ==
  IF ~Truthy(status) THEN UnknownStr
  ELSE LET status_lower == Strip(StrLower(status.s))
       IN  IF status_lower \in ActiveWords THEN << "A","c","t","i","v","e" >>
           ELSE IF status_lower \in LapsedWords \ { << "i","n","a","c","t","i","v","e" >> }
             THEN << "L","a","p","s","e","d" >>
           ELSE IF status_lower \in TerminatedWords THEN << "T","e","r","m","i","n","a","t","e","d" >>
           ELSE Capitalize(status.s)

\* _normalize_status with the fall-through stripping the capitalized text
NormalizeStatusCapStrip(status) ==
  IF ~Truthy(status) THEN UnknownStr
  ELSE LET status_lower == Strip(StrLower(status.s))
       IN  IF status_lower \in ActiveWords THEN << "A","c","t","i","v","e" >>
           ELSE IF status_lower \in LapsedWords THEN << "L","a","p","s","e","d" >>
           ELSE IF status_lower \in TerminatedWords THEN << "T","e","r","m","i","n","a","t","e","d" >>
           ELSE Strip(Capitalize(status.s))

\* _normalize_status(status): status is a str or None; the result is a str
NormalizeStatus(status) ==
  IF ~Truthy(status) THEN UnknownStr
  ELSE LET status_lower == Strip(StrLower(status.s))
       IN  IF status_lower \in ActiveWords THEN << "A","c","t","i","v","e" >>
           ELSE IF status_lower \in LapsedWords THEN << "L","a","p","s","e","d" >>
           ELSE IF status_lower \in TerminatedWords THEN << "T","e","r","m","i","n","a","t","e","d" >>
           ELSE Capitalize(status.s)

\* _normalize_date(date_str): date_str is a str; the result is a str
NormalizeDate(date_str) ==
  IF date_str = << >> \/ date_str = UnknownStr THEN UnknownStr
  ELSE LET iso == FromIsoformat(ReplaceCh(date_str, "Z", << "+","0","0",":","0","0" >>))
           mdy == StrptimeMDY(date_str)
           ymd == StrptimeYMD(date_str)
       IN  IF iso.ok THEN StrftimeYMD(iso.day)
           ELSE IF mdy.ok THEN StrftimeYMD(mdy.day)
           ELSE IF ymd.ok THEN StrftimeYMD(ymd.day)
           ELSE date_str

\* _extract_date_from_ucc_number(ucc_number): ucc_number is a str or None.
\* A ValueError of int() in the 4-digit branch leaves through the outer
\* except and gives "Unknown"; in the month of the 2-digit branch it is
\* caught locally and the month defaults to 01.
ExtractDateFromUccNumber(ucc_number) ==
  IF ~Truthy(ucc_number) \/ Len(ucc_number.s) < 2 THEN UnknownStr
  ELSE
    LET u     == ucc_number.s
        y4    == PyInt(SubSeq(u, 1, 4))
        m4    == PyInt(SubSeq(u, 5, 6))
        y2    == PyInt(SubSeq(u, 1, 2))
        m2    == PyInt(SubSeq(u, 3, 4))
        full  == IF y2.val >= 90 THEN 1900 + y2.val ELSE 2000 + y2.val
        Iso(y, m) == ZeroPad(y, 4) \o << "-" >> \o ZeroPad(m, 2) \o << "-","0","1" >>
        TwoDigit ==
          IF ~y2.ok THEN UnknownStr
          ELSE IF Len(u) >= 4 /\ m2.ok /\ m2.val \in 1..12 THEN Iso(full, m2.val)
          ELSE Iso(full, 1)
    IN  IF Len(u) >= 4
          THEN IF ~y4.ok THEN UnknownStr
               ELSE IF y4.val \in 1990..2099
                 THEN IF Len(u) >= 6
                        THEN IF ~m4.ok THEN UnknownStr
                             ELSE IF m4.val \in 1..12 THEN Iso(y4.val, m4.val)
                             ELSE Iso(y4.val, 1)
                        ELSE Iso(y4.val, 1)
               ELSE TwoDigit
          ELSE TwoDigit

\* ", ".join(parts)
JoinComma(parts) ==
  LET F[i \in 0..Len(parts)] ==
        IF i = 0 THEN << >>
        ELSE IF i = 1 THEN parts[1]
        ELSE F[i-1] \o << ",", " " >> \o parts[i]
  IN  F[Len(parts)]

\* _normalize_florida, one debtor of raw_response.payload.debtors
NormalizeFloridaDebtor(debtor) ==
  LET ucc_number == DictGet(debtor, "uccNumber", PyStr(<< >>))
      parts == << DictGet(debtor, "address", PyStr(<< >>)),
                  DictGet(debtor, "city", PyStr(<< >>)),
                  DictGet(debtor, "state", PyStr(<< >>)),
                  DictGet(debtor, "zipCode", PyStr(<< >>)) >>
      kept  == SelectSeq(parts, Truthy)
  IN  [filing_date   |-> PyStr(ExtractDateFromUccNumber(ucc_number)),
       status        |-> PyStr(NormalizeStatus(DictGet(debtor, "status", PyStr(UnknownStr)))),
       debtor_name   |-> DictGet(debtor, "name", PyStr(UnknownStr)),
       file_number   |-> ucc_number,
       address       |-> PyStr(Strip(JoinComma([i \in 1..Len(kept) |-> kept[i].s]))),
       secured_party |-> PyNone,
       collateral    |-> PyNone]

\* _normalize_generic, one record of flow_result["filings"]
NormalizeGenericFiling(filing) ==
  LET raw_date == DictGet(filing, "filing_date", PyStr(UnknownStr))
  IN  [filing_date   |-> IF Truthy(raw_date) /\ raw_date.s # UnknownStr
                           THEN PyStr(NormalizeDate(raw_date.s))
                           ELSE raw_date,
       status        |-> PyStr(NormalizeStatus(DictGet(filing, "status", PyStr(UnknownStr)))),
       debtor_name   |-> DictGet(filing, "debtor_name",
                                 DictGet(filing, "debtor", PyStr(UnknownStr))),
       file_number   |-> DictGet(filing, "file_number", PyNone),
       address       |-> Absent,
       secured_party |-> DictGet(filing, "secured_party", PyNone),
       collateral    |-> DictGet(filing, "collateral", PyNone)]

NormalizeFlorida(flow_result) ==
  [i \in 1..Len(flow_result.debtors) |-> NormalizeFloridaDebtor(flow_result.debtors[i])]

NormalizeGeneric(flow_result) ==
  [i \in 1..Len(flow_result.filings) |-> NormalizeGenericFiling(flow_result.filings[i])]

\* normalize_ucc_filings(flow_result, state)
NormalizeUccFilings(flow_result, state) ==
  IF state = "Florida" THEN NormalizeFlorida(flow_result)
  ELSE NormalizeGeneric(flow_result)

----------------------------------------------------------------------------
(* Fixed-point arithmetic for math.exp, math.log and x ** 1.5.             *)
(* E4 values are in units of 1/10000, Milli values in units of 1/1000.     *)

\* 10000 * e^(-n) for n = 0, 1, 2, ...
ExpTable ==
  << 10000, 3679, 1353, 498, 183, 67, 25, 9, 3, 1 >>

\* 10000 * exp(-x / 10000) for x >= 0: e^(-n) from the table, the
\* fractional part by the Taylor series of exp at half the argument, squared
ExpNegE4(x) ==
  LET n  == x \div 10000
      f  == x % 10000
      g  == f \div 2
      h  == f - g
      T(y) == LET t2 == (y * y) \div 20000
                  t3 == (t2 * y) \div 30000
                  t4 == (t3 * y) \div 40000
                  t5 == (t4 * y) \div 50000
              IN  10000 - y + t2 - t3 + t4 - t5
      ef == (T(g) * T(h)) \div 10000
  IN  IF n + 1 > Len(ExpTable) THEN 0
      ELSE (ExpTable[n + 1] * ef + 5000) \div 10000

\* 10000 * exp(x / 10000) for any x
ExpE4(x) ==
  IF x <= 0 THEN ExpNegE4(0 - x)
  ELSE 100000000 \div ExpNegE4(x)

\* 10000 * ln(x / 10000) for x >= 10000: halve down to [1, 2), then
\* ln(m) = 2 * atanh((m-1)/(m+1)) by its series
RECURSIVE LnE4(_)
LnE4(x) ==
  IF x >= 20000 THEN 6931 + LnE4(x \div 2)
  ELSE LET z  == ((x - 10000) * 10000) \div (x + 10000)
           z2 == (z * z) \div 10000
           p3 == (z * z2) \div 10000
           p5 == (p3 * z2) \div 10000
           p7 == (p5 * z2) \div 10000
       IN  2 * (z + p3 \div 3 + p5 \div 5 + p7 \div 7)

\* floor(sqrt(n)) by bisection
RECURSIVE SqrtBetween(_, _, _)
SqrtBetween(n, lo, hi) ==
  IF lo >= hi THEN lo
  ELSE LET mid == (lo + hi + 1) \div 2
       IN  IF mid * mid <= n THEN SqrtBetween(n, mid, hi)
           ELSE SqrtBetween(n, lo, mid - 1)

ISqrt(n) ==
  SqrtBetween(n, 0, 46340)

\* round(x, 2) of a Milli value, as a Milli value (halves go to the even digit)
Round2(x) ==
  LET q == x \div 10
      r == x % 10
  IN  10 * (IF r > 5 \/ (r = 5 /\ q % 2 = 1) THEN q + 1 ELSE q)

Min(a, b) ==
  IF a <= b THEN a ELSE b

Max(a, b) ==
  IF a >= b THEN a ELSE b

----------------------------------------------------------------------------
(* TrustScore calculator (calculator.py): the numeric sub-computations     *)

\* (d.get(key) or ""), d[key] a str, None or missing
GetOrEmpty(d, key) ==
  IF Truthy(d[key]) THEN d[key].s ELSE << >>

\* the try / except ladder of _parse_date: a string with a "T" goes to
\* fromisoformat, any other to strptime("%Y-%m-%d") made UTC-aware; when
\* that raises, fromisoformat is the last resort and its result, naive or
\* aware, is returned as it is.
ParseLadder(hasT, ymd, iso) ==
  IF hasT THEN iso
  ELSE IF ymd.ok THEN [ymd EXCEPT !.aware = TRUE]
  ELSE iso

\* _parse_date(date_str): NoDate stands for None
ParseDate(date_str) ==
  IF ~Truthy(date_str) THEN NoDate
  ELSE ParseLadder(Contains(date_str.s, << "T" >>),
                   StrptimeYMD(date_str.s),
                   FromIsoformat(ReplaceCh(date_str.s, "Z", << "+","0","0",":","0","0" >>)))

\* _get_event_severity with the "serious" test before the "accident" test
GetEventSeveritySeriousFirst(event) ==
  LET event_type   == StrLower(GetOrEmpty(event, "event_type"))
      injury_level == StrLower(GetOrEmpty(event, "injury_level"))
      severity     == StrLower(GetOrEmpty(event, "severity"))
  IN  IF Contains(event_type, << "s","e","r","i","o","u","s" >>) \/ Contains(injury_level, << "s","e","r","i","o","u","s" >>)
        THEN 15
      ELSE IF Contains(event_type, << "a","c","c","i","d","e","n","t" >>)
        THEN IF Contains(injury_level, << "f","a","t","a","l" >>) THEN 50 ELSE 25
      ELSE IF Contains(event_type, << "m","a","j","o","r" >>) \/ Contains(severity, << "m","a","j","o","r" >>)
        THEN 10
      ELSE 5

\* _get_event_severity(event)
GetEventSeverity(event) ==
  LET event_type   == StrLower(GetOrEmpty(event, "event_type"))
      injury_level == StrLower(GetOrEmpty(event, "injury_level"))
      severity     == StrLower(GetOrEmpty(event, "severity"))
  IN  IF Contains(event_type, << "a","c","c","i","d","e","n","t" >>)
        THEN IF Contains(injury_level, << "f","a","t","a","l" >>) THEN 50 ELSE 25
      ELSE IF Contains(event_type, << "s","e","r","i","o","u","s" >>) \/ Contains(injury_level, << "s","e","r","i","o","u","s" >>)
        THEN 15
      ELSE IF Contains(event_type, << "m","a","j","o","r" >>) \/ Contains(severity, << "m","a","j","o","r" >>)
        THEN 10
      ELSE 5

\* a float result in Milli, or the exception that left the function
Val(v) ==
  [err |-> "", v |-> v]

Raised(e) ==
  [err |-> e, v |-> 0]

\* math.exp(-TIME_DECAY_K * delta_t) in E4, delta_t = days / 365.25 and
\* TIME_DECAY_K = ln(2) / 5
TimeDecayE4(days) ==
  ExpE4(0 - ((days * 27726) \div 7305))

\* math.exp(-0.15 * delta) in Milli, delta = days / 365.25
FinancialDecayMilli(days) ==
  (ExpE4(0 - ((days * 6000) \div 1461)) + 5) \div 10

\* VF = fleet_size * ln(operator_age_years + 1) in E4, replaced by 1 when it
\* is exactly 0
VolatilityFactorE4(fleet_size, ageMilli) ==
  LET vf == fleet_size * LnE4(10000 + ageMilli * 10)
  IN  IF vf = 0 THEN 10000 ELSE vf

\* one pass of the event loop of _calculate_fleet_operational_risk: total is
\* total_risk so far, d the parsed event_date. Subtracting a naive event
\* date from the aware current_date raises TypeError.
FleetEventTerm(total, sev, d, vf, current_date) ==
  IF total.err # "" \/ ~d.ok THEN total
  ELSE IF ~d.aware THEN Raised("TypeError")
  ELSE Val(total.v + (sev * TimeDecayE4(current_date - d.day) * 1000) \div vf)

\* _calculate_fleet_operational_risk; current_date is datetime.now(timezone.utc)
CalculateFleetOperationalRisk(fleet_events, fleet_size, ageMilli, current_date) ==
  LET F[i \in 0..Len(fleet_events)] ==
        IF i = 0 THEN Val(0)
        ELSE FleetEventTerm(F[i-1], GetEventSeverity(fleet_events[i]),
                            ParseDate(fleet_events[i].event_date),
                            VolatilityFactorE4(fleet_size, ageMilli), current_date)
  IN  F[Len(fleet_events)]

\* days in timedelta(days=5 * 365)
FiveYearsDays ==
  5 * 365

\* one pass of the bankruptcy loop: seen is the outcome so far, d the parsed
\* record date. Comparing a naive record date with the aware five_years_ago
\* raises TypeError.
BankruptcyRecord(seen, status, d, current_date) ==
  IF seen # "none" THEN seen
  ELSE IF status = << "a","c","t","i","v","e" >> THEN "floor"
  ELSE IF ~d.ok THEN "none"
  ELSE IF ~d.aware THEN "raise"
  ELSE IF d.day > current_date - FiveYearsDays THEN "floor"
  ELSE "none"

\* the bankruptcy loop of _calculate_fleet_financial_score:
\* "floor" (return 0.0), "none" (fall through) or "raise"
BankruptcyCheck(bankruptcy_history, current_date) ==
  LET F[i \in 0..Len(bankruptcy_history)] ==
        IF i = 0 THEN "none"
        ELSE BankruptcyRecord(F[i-1],
                              StrLower(GetOrEmpty(bankruptcy_history[i], "status")),
                              ParseDate(bankruptcy_history[i].date), current_date)
  IN  F[Len(bankruptcy_history)]

ResolvedKeywords ==
  { << "s","a","t","i","s","f","i","e","d" >>,
    << "r","e","l","e","a","s","e","d" >>,
    << "t","e","r","m","i","n","a","t","e","d" >>,
    << "l","a","p","s","e","d" >> }

\* a or b for two parse results
DateOr(a, b) ==
  IF a.ok THEN a ELSE b

\* the branch of a filing of the last 5 years: total is
\* resolved_score - unresolved_penalty so far
FilingBranch(total, is_resolved, resolution_date, filing_date, current_date) ==
  IF is_resolved
    THEN IF ~resolution_date.aware THEN Raised("TypeError")
         ELSE Val(total.v + FinancialDecayMilli(current_date - resolution_date.day))
    ELSE Val(total.v - 5 * FinancialDecayMilli(current_date - filing_date.day))

\* one pass of the filing loop. Comparing a naive filing date with the
\* aware five_years_ago raises TypeError.
FilingTerm(total, filing_date, status, lapse_date, current_date) ==
  IF total.err # "" \/ ~filing_date.ok THEN total
  ELSE IF ~filing_date.aware THEN Raised("TypeError")
  ELSE IF filing_date.day <= current_date - FiveYearsDays THEN total
  ELSE FilingBranch(total, \E k \in ResolvedKeywords : Contains(status, k),
                    DateOr(lapse_date, filing_date), filing_date, current_date)

\* the filing loop of _calculate_fleet_financial_score:
\* resolved_score - unresolved_penalty over the filings of the last 5 years
FilingsScore(ucc_filings, current_date) ==
  LET F[i \in 0..Len(ucc_filings)] ==
        IF i = 0 THEN Val(0)
        ELSE FilingTerm(F[i-1], ParseDate(ucc_filings[i].filing_date),
                        StrLower(GetOrEmpty(ucc_filings[i], "status")),
                        ParseDate(ucc_filings[i].lapse_date), current_date)
  IN  F[Len(ucc_filings)]

\* the same without the default of 5.0 for an empty filing list: the empty
\* sum, 0
FinancialOutcomeNoDefault(b, ucc_filings, current_date) ==
  IF b = "floor" THEN Val(0)
  ELSE IF b = "raise" THEN Raised("TypeError")
  ELSE FilingsScore(ucc_filings, current_date)

\* the outcome of _calculate_fleet_financial_score after the bankruptcy loop
FinancialOutcome(b, ucc_filings, current_date) ==
  IF b = "floor" THEN Val(0)
  ELSE IF b = "raise" THEN Raised("TypeError")
  ELSE IF Len(ucc_filings) = 0 THEN Val(5000)
  ELSE FilingsScore(ucc_filings, current_date)

\* _calculate_fleet_financial_score(ucc_filings, bankruptcy_history);
\* a bankruptcy_history of None is the empty list (both are falsy)
CalculateFleetFinancialScore(ucc_filings, bankruptcy_history, current_date) ==
  FinancialOutcome(BankruptcyCheck(bankruptcy_history, current_date),
                   ucc_filings, current_date)

\* ARGUS_POINTS and WYVERN_POINTS in insertion order
ArgusPoints ==
  << [key |-> << "P","l","a","t","i","n","u","m"," ","E","l","i","t","e" >>, points |-> 0],
     [key |-> << "P","l","a","t","i","n","u","m" >>, points |-> 2],
     [key |-> << "G","o","l","d"," ","P","l","u","s" >>, points |-> 4],
     [key |-> << "G","o","l","d" >>, points |-> 6],
     [key |-> << "N","o","n","e" >>, points |-> 10] >>

WyvernPoints ==
  << [key |-> << "W","i","n","g","m","a","n"," ","P","R","O" >>, points |-> 2],
     [key |-> << "W","i","n","g","m","a","n" >>, points |-> 4],
     [key |-> << "R","e","g","i","s","t","e","r","e","d"," ","O","p","e","r","a","t","o","r" >>, points |-> 6],
     [key |-> << "N","o","n","e" >>, points |-> 10] >>

\* the points of the first table entry among hits (indices), 10 if none
FirstMatch(table, hits) ==
  IF hits = {} THEN 10
  ELSE table[CHOOSE i \in hits : \A j \in hits : i <= j].points

\* the indices of the keys equal to the rating
ExactHits(table, r) ==
  { i \in 1..Len(table) : table[i].key = r }

\* the indices of the keys equal to the rating once both are lower-cased
LowerHits(table, r) ==
  { i \in 1..Len(table) : StrLower(table[i].key) = StrLower(r) }

\* the indices of the lower-cased keys that equal or contain the
\* lower-cased rating
PartialHits(table, r) ==
  { i \in 1..Len(table) :
      \/ StrLower(table[i].key) = StrLower(r)
      \/ Contains(StrLower(table[i].key), StrLower(r)) }

\* "No" or "" (in any case) becomes "None"
NoToNone(rating) ==
  IF StrLower(rating) \in { << "n","o" >>, << >> } THEN << "N","o","n","e" >> ELSE rating

\* the exact match first, then the fall-back matches in insertion order
PointsOf(table, exact, fallback) ==
  IF exact # {} THEN FirstMatch(table, exact) ELSE FirstMatch(table, fallback)

\* the ARGUS branch of _calculate_fleet_certification_score
ArgusRatingPoints(argus_rating) ==
  IF ~Truthy(argus_rating) THEN 10
  ELSE PointsOf(ArgusPoints,
                ExactHits(ArgusPoints, NoToNone(argus_rating.s)),
                LowerHits(ArgusPoints, NoToNone(argus_rating.s)))

\* the WYVERN branch of _calculate_fleet_certification_score: when no key
\* matches exactly, the first key that equals the rating case-insensitively
\* or contains it (lower-cased) as a substring
WyvernRatingPoints(wyvern_rating) ==
  IF ~Truthy(wyvern_rating) THEN 10
  ELSE PointsOf(WyvernPoints,
                ExactHits(WyvernPoints, NoToNone(wyvern_rating.s)),
                PartialHits(WyvernPoints, NoToNone(wyvern_rating.s)))

\* _calculate_fleet_certification_score(argus_rating, wyvern_rating)
CalculateFleetCertificationScore(argus_rating, wyvern_rating) ==
  Min(ArgusRatingPoints(argus_rating), WyvernRatingPoints(wyvern_rating))

\* _calculate_tail_maintenance_risk(aircraft_age_years) in Milli:
\* 2 * (4.15 * e^(-2x) + 100 * (max(0, x - 5) / 25) ** 1.5)
CalculateTailMaintenanceRisk(ageMilli) ==
  LET new_penalty == (4150 * ExpE4(0 - 20 * ageMilli)) \div 10000
      u           == Max(0, ageMilli - 5000) \div 25
      old_penalty == (100 * u * ISqrt(u * 1000)) \div 1000
  IN  2 * (new_penalty + old_penalty)

\* an ownership test that compares the names as they are written
CalculateTailOwnershipStatusExact(operator_name, registered_owner, fractional_owner) ==
  IF ~Truthy(operator_name) \/ ~Truthy(registered_owner) THEN 0
  ELSE IF ~Contains(registered_owner.s, operator_name.s) THEN 0
  ELSE IF fractional_owner THEN 5
  ELSE 10

\* _calculate_tail_ownership_status(operator_name, registered_owner,
\* fractional_owner): 10, 5 or 0
CalculateTailOwnershipStatus(operator_name, registered_owner, fractional_owner) ==
  IF ~Truthy(operator_name) \/ ~Truthy(registered_owner) THEN 0
  ELSE LET operator_owns ==
             Contains(StrLower(registered_owner.s), StrLower(operator_name.s))
       IN  IF operator_owns /\ ~fractional_owner THEN 10
           ELSE IF operator_owns /\ fractional_owner THEN 5
           ELSE 0

\* one pass of the event loop of _calculate_tail_incident_history
TailEventTerm(total, sev, d, current_date) ==
  IF total.err # "" \/ ~d.ok THEN total
  ELSE IF ~d.aware THEN Raised("TypeError")
  ELSE Val(total.v + (sev * TimeDecayE4(current_date - d.day)) \div 10)

\* _calculate_tail_incident_history(tail_events)
CalculateTailIncidentHistory(tail_events, current_date) ==
  LET F[i \in 0..Len(tail_events)] ==
        IF i = 0 THEN Val(0)
        ELSE TailEventTerm(F[i-1], GetEventSeverity(tail_events[i]),
                           ParseDate(tail_events[i].event_date), current_date)
  IN  F[Len(tail_events)]

\* calculate_confidence_score without the "1 -": e^(-0.384 y)
CalculateConfidenceScoreDecaying(ageMilli) ==
  ExpE4(0 - ((384 * ageMilli) \div 100))

\* calculate_confidence_score(operator_age_years) in E4: 1 - e^(-0.384 y)
CalculateConfidenceScore(ageMilli) ==
  10000 - ExpE4(0 - ((384 * ageMilli) \div 100))

\* get_score_tier with strict comparisons: a boundary score falls in the
\* tier below
GetScoreTierStrict(score) ==
  IF score > 90000 THEN "Pinnacle"
  ELSE IF score > 80000 THEN "Premier"
  ELSE IF score > 70000 THEN "Benchmark"
  ELSE "Standard"

\* get_score_tier(score), score in Milli
GetScoreTier(score) ==
  IF score >= 90000 THEN "Pinnacle"
  ELSE IF score >= 80000 THEN "Premier"
  ELSE IF score >= 70000 THEN "Benchmark"
  ELSE "Standard"

\* the score left as computed, without the clamp
ClampNone(score) ==
  score

\* max(0.0, min(100.0, score)) in Milli
Clamp(score) ==
  Max(0, Min(100000, score))

----------------------------------------------------------------------------
(* calculate_trust_score: the phases between its awaits                    *)

\* OS = 100 - ORF + FSF - CSF, clamped, in Milli (csf in points); err names
\* the exception that left a component and at the component it left
FleetOutcome(orf, fsf, csf) ==
  IF orf.err # ""
    THEN [err |-> orf.err, at |-> "ORF", orf |-> 0, fsf |-> 0, csf |-> 0, score |-> 0]
  ELSE IF fsf.err # ""
    THEN [err |-> fsf.err, at |-> "FSF", orf |-> 0, fsf |-> 0, csf |-> 0, score |-> 0]
  ELSE [err |-> "", at |-> "", orf |-> orf.v, fsf |-> fsf.v, csf |-> csf,
        score |-> Clamp(100000 - orf.v + fsf.v - csf * 1000)]

\* calculate_fleet_score up to the clamp
FleetPhase(fleet, today) ==
  FleetOutcome(
    CalculateFleetOperationalRisk(
      fleet.fleet_events, fleet.fleet_size, fleet.operator_age_years, today),
    CalculateFleetFinancialScore(fleet.ucc_filings, fleet.bankruptcy_history, today),
    CalculateFleetCertificationScore(fleet.argus_rating, fleet.wyvern_rating))

\* TS = 100 - MRT + OST - 5 * IHT, clamped, in Milli (ost in points)
TailOutcome(mrt, ost, iht) ==
  IF iht.err # ""
    THEN [err |-> iht.err, at |-> "IHT", mrt |-> 0, ost |-> 0, iht |-> 0, score |-> 0]
  ELSE [err |-> "", at |-> "", mrt |-> mrt, ost |-> ost, iht |-> iht.v,
        score |-> Clamp(100000 - mrt + ost * 1000 - 5 * iht.v)]

\* calculate_tail_score up to the clamp
TailPhase(tail, today) ==
  TailOutcome(
    CalculateTailMaintenanceRisk(tail.aircraft_age_years),
    CalculateTailOwnershipStatus(
      tail.operator_name, tail.registered_owner, tail.fractional_owner),
    CalculateTailIncidentHistory(tail.tail_events, today))

\* the composite without the factor 0.5: 50 + raw_combined * CS and
\* 50 + OS * CS
CombineUnhalved(cs, operator_score, tail_score) ==
  [confidence_score |-> cs,
   raw_combined     |-> (6 * operator_score + 4 * tail_score) \div 10,
   trust_score      |-> 50000 + (((6 * operator_score + 4 * tail_score) \div 10) * cs) \div 10000,
   fleet_score      |-> 50000 + (operator_score * cs) \div 10000]

\* lines 165-169: raw_combined, trust_score and fleet_score (Milli) from OS,
\* TS (Milli) and CS (E4)
Combine(cs, operator_score, tail_score) ==
  [confidence_score |-> cs,
   raw_combined     |-> (6 * operator_score + 4 * tail_score) \div 10,
   trust_score      |-> 50000 + (((6 * operator_score + 4 * tail_score) \div 10) * cs) \div 20000,
   fleet_score      |-> 50000 + (operator_score * cs) \div 20000]

\* lines 162-169
ComposePhase(ageMilli, operator_score, tail_score) ==
  Combine(CalculateConfidenceScore(ageMilli), operator_score, tail_score)

NoLocals ==
  [nowFleet |-> 0, nowTail |-> 0, raised_in |-> "",
   orf |-> 0, fsf |-> 0, csf |-> 0, operator_score |-> 0, fleet_explanation |-> FALSE,
   mrt |-> 0, ost |-> 0, iht |-> 0, tail_score |-> 0, tail_explanation |-> FALSE,
   confidence_score |-> 0, raw_combined |-> 0, trust_score |-> 0, fleet_score |-> 0]

WithFleet(l, f, today) ==
  [l EXCEPT !.nowFleet = today, !.orf = f.orf, !.fsf = f.fsf, !.csf = f.csf,
            !.operator_score = f.score]

WithTail(l, t, today) ==
  [l EXCEPT !.nowTail = today, !.mrt = t.mrt, !.ost = t.ost, !.iht = t.iht,
            !.tail_score = t.score]

WithCompose(l, k) ==
  [l EXCEPT !.confidence_score = k.confidence_score, !.raw_combined = k.raw_combined,
            !.trust_score = k.trust_score, !.fleet_score = k.fleet_score]

\* the numeric fields of the returned dict (lines 182-191), scores as
\* round(x, 2) in Milli, the confidence as round(x, 4) in E4
NumericResult(l) ==
  [trust_score        |-> Round2(l.trust_score),
   score_tier         |-> GetScoreTier(l.trust_score),
   fleet_score        |-> Round2(l.fleet_score),
   operator_score     |-> Round2(l.operator_score),
   tail_score         |-> Round2(l.tail_score),
   confidence_score   |-> l.confidence_score,
   raw_combined_score |-> Round2(l.raw_combined),
   fleet_final_score  |-> Round2(l.operator_score),
   ORF                |-> Round2(l.orf),
   FSF                |-> Round2(l.fsf),
   CSF                |-> l.csf,
   tail_final_score   |-> Round2(l.tail_score),
   MRT                |-> Round2(l.mrt),
   OST                |-> l.ost,
   IHT                |-> Round2(l.iht)]

\* a result whose time decay is taken again at the return: the trust_score
\* loses a hundredth for every day since calculate_fleet_score read the clock
MakeResultDated(l, ai_insights, today) ==
  [numbers           |-> NumericResult(
                           [l EXCEPT !.trust_score = @ - 10 * (today - l.nowFleet)]),
   fleet_explanation |-> l.fleet_explanation,
   tail_explanation  |-> l.tail_explanation,
   ai_insights       |-> ai_insights,
   calculated_at     |-> today]

\* a result whose trust_score moves with the narrative: one point more when
\* insights were generated
MakeResultNarrated(l, ai_insights, today) ==
  [numbers           |-> NumericResult(
                           [l EXCEPT !.trust_score = IF ai_insights THEN @ + 1000 ELSE @]),
   fleet_explanation |-> l.fleet_explanation,
   tail_explanation  |-> l.tail_explanation,
   ai_insights       |-> ai_insights,
   calculated_at     |-> today]

\* the returned dict: the numbers, which narrative keys are present, and
\* calculated_at
MakeResult(l, ai_insights, today) ==
  [numbers           |-> NumericResult(l),
   fleet_explanation |-> l.fleet_explanation,
   tail_explanation  |-> l.tail_explanation,
   ai_insights       |-> ai_insights,
   calculated_at     |-> today]

NoResult ==
  MakeResult(NoLocals, FALSE, 0)

Calls ==
  DOMAIN pc

\* the return of a call that never awaited, from its locals
SyncReturn(c, l) ==
  /\ pc' = [pc EXCEPT ![c] = "done"]
  /\ loc' = [loc EXCEPT ![c] = l]
  /\ ret' = [ret EXCEPT ![c] = MakeResult(l, FALSE, now)]

SyncOutcome(c, f, t) ==
  IF f.err # "" \/ t.err # ""
    THEN /\ pc' = [pc EXCEPT ![c] = "raised"]
         /\ loc' = [loc EXCEPT ![c].nowFleet = now,
                               ![c].nowTail = IF f.err # "" THEN 0 ELSE now,
                               ![c].raised_in = IF f.err # "" THEN f.at ELSE t.at]
         /\ ret' = ret
    ELSE SyncReturn(c, WithCompose(
                         WithTail(WithFleet(loc[c], f, now), t, now),
                         ComposePhase(inp[c].fleet_data.operator_age_years,
                                      f.score, t.score)))

\* calculate_trust_score on a calculator without llm_client: no await
\* suspends, the call runs from entry to return
ScoreWithoutLlm(c) ==
  /\ pc[c] = "start"
  /\ ~inp[c].llm_client
  /\ SyncOutcome(c, FleetPhase(inp[c].fleet_data, now), TailPhase(inp[c].tail_data, now))
  /\ UNCHANGED << now, inp, llm >>
  /\ UNCHANGED << normVars, statusVars, certVars, probeVars, uccVars >>

FleetOutcomeStep(c, f) ==
  IF f.err # ""
    THEN /\ pc' = [pc EXCEPT ![c] = "raised"]
         /\ loc' = [loc EXCEPT ![c].nowFleet = now, ![c].raised_in = f.at]
         /\ llm' = llm
    ELSE /\ pc' = [pc EXCEPT ![c] = "awaitFleet"]
         /\ loc' = [loc EXCEPT ![c] = WithFleet(loc[c], f, now)]
         /\ llm' = [llm EXCEPT ![c] = "pending"]

\* with an llm_client: calculate_fleet_score up to its
\* await self._generate_fleet_explanation(...)
FleetScoreBegin(c) ==
  /\ pc[c] = "start"
  /\ inp[c].llm_client
  /\ FleetOutcomeStep(c, FleetPhase(inp[c].fleet_data, now))
  /\ UNCHANGED << now, inp, ret >>
  /\ UNCHANGED << normVars, statusVars, certVars, probeVars, uccVars >>

TailOutcomeStep(c, l, t) ==
  IF t.err # ""
    THEN /\ pc' = [pc EXCEPT ![c] = "raised"]
         /\ loc' = [loc EXCEPT ![c] = [l EXCEPT !.nowTail = now, !.raised_in = t.at]]
         /\ llm' = [llm EXCEPT ![c] = "idle"]
    ELSE /\ pc' = [pc EXCEPT ![c] = "awaitTail"]
         /\ loc' = [loc EXCEPT ![c] = WithTail(l, t, now)]
         /\ llm' = [llm EXCEPT ![c] = "pending"]

\* the fleet explanation came back (text, or None after the except):
\* calculate_fleet_score returns, calculate_tail_score runs up to its
\* await self._generate_tail_explanation(...)
TailScoreBegin(c) ==
  /\ pc[c] = "awaitFleet"
  /\ llm[c] \in {"answered", "failed"}
  /\ TailOutcomeStep(c, [loc[c] EXCEPT !.fleet_explanation = (llm[c] = "answered")],
                     TailPhase(inp[c].tail_data, now))
  /\ UNCHANGED << now, inp, ret >>
  /\ UNCHANGED << normVars, statusVars, certVars, probeVars, uccVars >>

\* lines 162-169 on scores kept on the calculator, where the first call left
\* them, instead of in the locals of the call
ComposeScoresShared(c) ==
  /\ pc[c] = "awaitTail"
  /\ llm[c] \in {"answered", "failed"}
  /\ loc' = [loc EXCEPT ![c] =
               WithCompose([loc[c] EXCEPT !.tail_explanation = (llm[c] = "answered")],
                           ComposePhase(inp[c].fleet_data.operator_age_years,
                                        loc[1].operator_score, loc[1].tail_score))]
  /\ pc' = [pc EXCEPT ![c] = "awaitInsights"]
  /\ llm' = [llm EXCEPT ![c] = "pending"]
  /\ UNCHANGED << now, inp, ret >>
  /\ UNCHANGED << normVars, statusVars, certVars, probeVars, uccVars >>

\* the tail explanation came back: calculate_tail_score returns, lines
\* 162-169 compute the scores, up to await self._generate_overall_insights(...)
ComposeScores(c) ==
  /\ pc[c] = "awaitTail"
  /\ llm[c] \in {"answered", "failed"}
  /\ loc' = [loc EXCEPT ![c] =
               WithCompose([loc[c] EXCEPT !.tail_explanation = (llm[c] = "answered")],
                           ComposePhase(inp[c].fleet_data.operator_age_years,
                                        loc[c].operator_score, loc[c].tail_score))]
  /\ pc' = [pc EXCEPT ![c] = "awaitInsights"]
  /\ llm' = [llm EXCEPT ![c] = "pending"]
  /\ UNCHANGED << now, inp, ret >>
  /\ UNCHANGED << normVars, statusVars, certVars, probeVars, uccVars >>

\* the insights came back: tier, result dict, return
ReturnResult(c) ==
  /\ pc[c] = "awaitInsights"
  /\ llm[c] \in {"answered", "failed"}
  /\ ret' = [ret EXCEPT ![c] = MakeResult(loc[c], llm[c] = "answered", now)]
  /\ pc' = [pc EXCEPT ![c] = "done"]
  /\ llm' = [llm EXCEPT ![c] = "idle"]
  /\ UNCHANGED << now, inp, loc >>
  /\ UNCHANGED << normVars, statusVars, certVars, probeVars, uccVars >>

\* llm_client.get_completion(prompt) returns the text
LlmAnswers(c) ==
  /\ llm[c] = "pending"
  /\ llm' = [llm EXCEPT ![c] = "answered"]
  /\ UNCHANGED << now, inp, pc, loc, ret >>
  /\ UNCHANGED << normVars, statusVars, certVars, probeVars, uccVars >>

\* llm_client.get_completion(prompt) raises; the except Exception of the
\* _generate_* method turns it into None
LlmRaises(c) ==
  /\ llm[c] = "pending"
  /\ llm' = [llm EXCEPT ![c] = "failed"]
  /\ UNCHANGED << now, inp, pc, loc, ret >>
  /\ UNCHANGED << normVars, statusVars, certVars, probeVars, uccVars >>

\* the service stops answering: the awaited get_completion neither
\* returns nor raises (no timeout is set around the await)
LlmHangs(c) ==
  /\ llm[c] = "pending"
  /\ llm' = [llm EXCEPT ![c] = "hung"]
  /\ UNCHANGED << now, inp, pc, loc, ret >>
  /\ UNCHANGED << normVars, statusVars, certVars, probeVars, uccVars >>

\* the first clock reading of the model: 2026-01-15
Day0 ==
  DaysFromCivil(2026, 1, 15)

\* days the clock may advance during the calls
MaxTick == 1

\* midnight passes
Tick ==
  /\ now < Day0 + MaxTick
  /\ \E c \in Calls : pc[c] \notin {"done", "raised", "idle"}
  /\ now' = now + 1
  /\ UNCHANGED << inp, pc, llm, loc, ret >>
  /\ UNCHANGED << normVars, statusVars, certVars, probeVars, uccVars >>

----------------------------------------------------------------------------
(* Inputs of the normalizer                                                *)

\* longest list of raw records in one flow_result
MaxRecords == 1

\* most blanks put around a status word
MaxPad == 1

SeqsUpTo(S, n) ==
  UNION { [1..k -> S] : k \in 0..n }

RawStatusValues ==
  { Absent, PyNone, PyStr(<< >>),
    PyStr(<< "L","a","p","s","e","d" >>), PyStr(<< "A","C","T","I","V","E" >>), PyStr(<< "P","e","n","d","i","n","g" >>),
    PyStr(<< " ","f","i","l","e","d"," " >>), PyStr(<< "E","x","p","i","r","e","d" >>) }

RawDateValues ==
  { Absent, PyNone, PyStr(<< >>), PyStr(UnknownStr),
    PyStr(<< "2","0","2","5","-","0","4","-","0","4" >>),
    PyStr(<< "0","4","/","0","4","/","2","0","2","5" >>),
    PyStr(<< "A","p","r"," ","4",","," ","2","0","2","5" >>),
    PyStr(<< "2","0","2","5","-","0","4","-","0","4","T","1","4",":","1","7",":","0","0","Z" >>),
    PyStr(<< "2","0","2","5","-","1","3","-","4","5" >>),
    PyStr(<< "2","0","2","5","-","4","-","4" >>) }

RawUccNumbers ==
  { Absent, PyNone,
    PyStr(<< "9","8","0","0","0","0","0","8","5","0","4","1" >>),
    PyStr(<< "2","0","1","8","0","6","3","5","8","5","4","7" >>),
    PyStr(<< "2","0","0","0","0","0","0","1","2","9","1","0" >>),
    PyStr(<< "2","0","1","8","A","B","0","0","0","0","0","1" >>),
    PyStr(<< "X","1" >>),
    PyStr(<< "9" >>),
    PyStr(<< "1","9","8","5" >>) }

NameA ==
  << "P","A","R","I","S"," ","A","I","R" >>

NameB ==
  << "J","e","t"," ","C","o" >>

\* the records of raw_response.payload.debtors (Florida compact shape):
\* every identifier with every status, and every mix of the other keys
RawDebtors ==
  { [name |-> PyStr(NameA), uccNumber |-> u, status |-> s, address |-> Absent,
     city |-> Absent, state |-> Absent, zipCode |-> Absent,
     filing_date |-> Absent] :
      u \in RawUccNumbers, s \in RawStatusValues }
    \cup
  { [name |-> n, uccNumber |-> PyStr(<< "2","0","1","8","0","6","3","5","8","5","4","7" >>), status |-> PyStr(<< "L","a","p","s","e","d" >>),
     address |-> a, city |-> c, state |-> Absent, zipCode |-> z,
     filing_date |-> fd] :
      n \in {Absent, PyStr(NameA)},
      a \in {Absent, PyStr(<< "1"," ","M","a","i","n"," ","S","t" >>)}, c \in {Absent, PyStr(<< >>), PyStr(<< "M","i","a","m","i" >>)},
      z \in {Absent, PyNone},
      fd \in {Absent, PyStr(<< "2","0","2","5","-","0","4","-","0","4" >>)} }

\* the records of flow_result["filings"] (generic scraped shape):
\* every date with every status, and every mix of the other keys
RawFilings ==
  { [filing_date |-> fd, status |-> s, debtor_name |-> PyStr(NameA),
     debtor |-> Absent, file_number |-> Absent, secured_party |-> Absent,
     collateral |-> Absent] :
      fd \in RawDateValues, s \in RawStatusValues }
    \cup
  { [filing_date |-> PyStr(<< "0","4","/","0","4","/","2","0","2","5" >>), status |-> PyStr(<< "A","C","T","I","V","E" >>),
     debtor_name |-> dn, debtor |-> db,
     file_number |-> fn, secured_party |-> sp, collateral |-> co] :
      dn \in {Absent, PyStr(NameA)}, db \in {Absent, PyStr(NameB)},
      fn \in {Absent, PyStr(<< "9","8","0","0","0","0","0","8","5","0","4","1" >>)}, sp \in {Absent, PyNone},
      co \in {Absent, PyStr(<< "N","1","2","3","A","B" >>)} }

FlowResults ==
  { [debtors |-> d, filings |-> << >>] : d \in SeqsUpTo(RawDebtors, MaxRecords) }
    \cup
  { [debtors |-> << >>, filings |-> f] : f \in SeqsUpTo(RawFilings, MaxRecords) }

SourceKinds ==
  { "Florida", "Texas" }

----------------------------------------------------------------------------
(* State of one normalize_ucc_filings call                                 *)

NormInit ==
  /\ nFlow \in FlowResults
  /\ nState \in SourceKinds
  /\ nOut = << >>
  /\ nPc = "ready"

NormIdle ==
  /\ nFlow = [debtors |-> << >>, filings |-> << >>]
  /\ nState = "Texas"
  /\ nOut = << >>
  /\ nPc = "idle"

NormalizeCall ==
  /\ nPc = "ready"
  /\ nOut' = NormalizeUccFilings(nFlow, nState)
  /\ nPc' = "done"
  /\ UNCHANGED << nFlow, nState >>
  /\ UNCHANGED << statusVars, certVars, calcVars, probeVars, uccVars >>

----------------------------------------------------------------------------
(* _normalize_status applied once and again to its own result             *)

Blanks(n) ==
  [i \in 1..n |-> " "]

UnrecognisedWords ==
  { << "p","e","n","d","i","n","g" >>,
    << "u","n","k","n","o","w","n" >>,
    << "n","/","a" >>,
    << "a","c","t"," ","i","v","e" >>,
    << >> }

StatusWords ==
  ActiveWords \cup LapsedWords \cup TerminatedWords \cup UnrecognisedWords

\* every word in lower case, upper case and capitalized, with blanks around
StatusInputs ==
  { PyNone } \cup
  { PyStr(Blanks(l) \o c \o Blanks(r)) :
      c \in UNION { { x, StrUpper(x), Capitalize(x) } : x \in StatusWords },
      l \in 0..MaxPad, r \in 0..MaxPad }

StatusInit ==
  /\ sIn \in StatusInputs
  /\ sOnce = << >>
  /\ sTwice = << >>
  /\ sPc = "in"

StatusIdle ==
  /\ sIn = PyNone
  /\ sOnce = << >>
  /\ sTwice = << >>
  /\ sPc = "idle"

StatusOnce ==
  /\ sPc = "in"
  /\ sOnce' = NormalizeStatus(sIn)
  /\ sPc' = "once"
  /\ UNCHANGED << sIn, sTwice >>
  /\ UNCHANGED << normVars, certVars, calcVars, probeVars, uccVars >>

StatusTwice ==
  /\ sPc = "once"
  /\ sTwice' = NormalizeStatus(PyStr(sOnce))
  /\ sPc' = "twice"
  /\ UNCHANGED << sIn, sOnce >>
  /\ UNCHANGED << normVars, certVars, calcVars, probeVars, uccVars >>

----------------------------------------------------------------------------
(* _calculate_fleet_certification_score on a pair of ratings and on the    *)
(* same pair in another letter case                                        *)

ArgusInputs ==
  { PyNone, PyStr(<< >>), PyStr(<< "N","o" >>), PyStr(<< "N","o","n","e" >>),
    PyStr(<< "P","l","a","t","i","n","u","m"," ","E","l","i","t","e" >>), PyStr(<< "P","l","a","t","i","n","u","m" >>),
    PyStr(<< "G","o","l","d"," ","P","l","u","s" >>), PyStr(<< "G","o","l","d" >>),
    PyStr(<< "S","i","l","v","e","r" >>) }

WyvernInputs ==
  { PyNone, PyStr(<< >>), PyStr(<< "N","o" >>), PyStr(<< "N","o","n","e" >>),
    PyStr(<< "W","i","n","g","m","a","n"," ","P","R","O" >>), PyStr(<< "W","i","n","g","m","a","n" >>),
    PyStr(<< "R","e","g","i","s","t","e","r","e","d"," ","O","p","e","r","a","t","o","r" >>),
    PyStr(<< "B","r","o","n","z","e" >>), PyStr(<< "P","r","o" >>) }

\* the rating itself, lower-cased, upper-cased and capitalized
Recasings(rating) ==
  IF rating.tag # "str" THEN { rating }
  ELSE { rating, PyStr(StrLower(rating.s)), PyStr(StrUpper(rating.s)),
         PyStr(Capitalize(rating.s)) }

CertInit ==
  /\ cArgus \in ArgusInputs
  /\ cWyvern \in WyvernInputs
  /\ cArgus2 \in Recasings(cArgus)
  /\ cWyvern2 \in Recasings(cWyvern)
  /\ cCsf = 0
  /\ cCsf2 = 0
  /\ cPc = "in"

CertIdle ==
  /\ cArgus = PyNone
  /\ cWyvern = PyNone
  /\ cArgus2 = PyNone
  /\ cWyvern2 = PyNone
  /\ cCsf = 0
  /\ cCsf2 = 0
  /\ cPc = "idle"

CertScore ==
  /\ cPc = "in"
  /\ cCsf' = CalculateFleetCertificationScore(cArgus, cWyvern)
  /\ cPc' = "one"
  /\ UNCHANGED << cArgus, cWyvern, cArgus2, cWyvern2, cCsf2 >>
  /\ UNCHANGED << normVars, statusVars, calcVars, probeVars, uccVars >>

CertScoreRecased ==
  /\ cPc = "one"
  /\ cCsf2' = CalculateFleetCertificationScore(cArgus2, cWyvern2)
  /\ cPc' = "two"
  /\ UNCHANGED << cArgus, cWyvern, cArgus2, cWyvern2, cCsf >>
  /\ UNCHANGED << normVars, statusVars, calcVars, probeVars, uccVars >>

----------------------------------------------------------------------------
(* Inputs of calculate_trust_score                                         *)

\* longest fleet_events / tail_events list
MaxEvents == 2

\* longest ucc_filings list
MaxFilings == 2

\* longest bankruptcy_history list
MaxBankruptcies == 1

\* "YYYY-MM-DD" of the day `back` days before the first clock reading
DateBack(back) ==
  PyStr(StrftimeYMD(Day0 - back))

\* the same day as an ISO date-time with a UTC designator
StampBack(back) ==
  PyStr(StrftimeYMD(Day0 - back) \o << "T","0","0",":","0","0",":","0","0","Z" >>)

\* the same day as an ISO date-time without offset
NaiveStampBack(back) ==
  PyStr(StrftimeYMD(Day0 - back) \o << "T","0","0",":","0","0",":","0","0" >>)

EventKinds ==
  { [event_type |-> PyStr(<< "A","c","c","i","d","e","n","t" >>), injury_level |-> PyStr(<< "F","a","t","a","l" >>),
     severity |-> Absent, event_date |-> DateBack(30)],
    [event_type |-> PyStr(<< "A","C","C","I","D","E","N","T" >>), injury_level |-> PyNone,
     severity |-> Absent, event_date |-> StampBack(730)],
    [event_type |-> PyStr(<< "S","e","r","i","o","u","s"," ","I","n","c","i","d","e","n","t" >>), injury_level |-> Absent,
     severity |-> Absent, event_date |-> PyNone],
    [event_type |-> PyStr(<< "E","n","f","o","r","c","e","m","e","n","t" >>), injury_level |-> Absent,
     severity |-> PyStr(<< "M","a","j","o","r" >>), event_date |-> NaiveStampBack(400)],
    [event_type |-> PyNone, injury_level |-> Absent,
     severity |-> Absent, event_date |-> DateBack(3000)] }

FilingKinds ==
  { [filing_date |-> DateBack(365), status |-> PyStr(<< "A","c","t","i","v","e" >>), lapse_date |-> Absent],
    [filing_date |-> DateBack(1000), status |-> PyStr(<< "T","e","r","m","i","n","a","t","e","d" >>),
     lapse_date |-> DateBack(200)],
    [filing_date |-> DateBack(FiveYearsDays), status |-> PyStr(<< "L","a","p","s","e","d" >>),
     lapse_date |-> PyNone],
    [filing_date |-> DateBack(FiveYearsDays - 1), status |-> PyNone,
     lapse_date |-> Absent],
    [filing_date |-> PyStr(UnknownStr), status |-> PyStr(<< "A","c","t","i","v","e" >>),
     lapse_date |-> Absent],
    [filing_date |-> NaiveStampBack(400), status |-> PyStr(<< "R","e","l","e","a","s","e","d" >>),
     lapse_date |-> Absent] }

BankruptcyKinds ==
  { [status |-> PyStr(<< "A","C","T","I","V","E" >>), date |-> DateBack(3000)],
    [status |-> PyStr(<< "D","i","s","c","h","a","r","g","e","d" >>), date |-> DateBack(400)],
    [status |-> PyStr(<< "c","l","o","s","e","d" >>), date |-> DateBack(FiveYearsDays)],
    [status |-> PyNone, date |-> DateBack(FiveYearsDays - 1)],
    [status |-> PyStr(<< "d","i","s","c","h","a","r","g","e","d" >>), date |-> NaiveStampBack(400)],
    [status |-> PyStr(<< "d","i","s","c","h","a","r","g","e","d" >>), date |-> PyStr(<< "0","6","/","0","1","/","2","0","2","5" >>)],
    [status |-> PyStr(<< "d","i","s","m","i","s","s","e","d" >>), date |-> Absent] }

\* FleetScoreData with nothing on record
BareFleet(age, size) ==
  [fleet_events |-> << >>, fleet_size |-> size, operator_age_years |-> age,
   ucc_filings |-> << >>, bankruptcy_history |-> << >>,
   argus_rating |-> PyNone, wyvern_rating |-> PyNone]

\* operator_age_years in Milli: 0, 0.1 and 15.5 years
OperatorAges ==
  { 0, 100, 15500 }

FleetSizes ==
  { 1, 12 }

\* every event list with every age and fleet size
FleetsByEvents ==
  { [BareFleet(age, size) EXCEPT !.fleet_events = ev] :
      ev \in SeqsUpTo(EventKinds, MaxEvents), age \in OperatorAges, size \in FleetSizes }

\* every filing list with every bankruptcy list, for a young and an old
\* operator, without and with the best ARGUS rating
FleetsByFinance ==
  { [BareFleet(age, 12) EXCEPT !.ucc_filings = uf, !.bankruptcy_history = bh,
                               !.argus_rating = ar] :
      uf \in SeqsUpTo(FilingKinds, MaxFilings),
      bh \in SeqsUpTo(BankruptcyKinds, MaxBankruptcies),
      age \in { 0, 15500 },
      ar \in { PyNone, PyStr(<< "P","l","a","t","i","n","u","m"," ","E","l","i","t","e" >>) } }

\* every pair of ratings
FleetsByRating ==
  { [BareFleet(15500, 12) EXCEPT !.argus_rating = ar, !.wyvern_rating = wr] :
      ar \in ArgusInputs, wr \in WyvernInputs }

\* fleets with nothing on record but a rating, at operator ages that put the
\* trust score next to a tier boundary
FleetsNearTier ==
  { [BareFleet(age, 12) EXCEPT !.argus_rating = ar] :
      age \in { 1329, 1331, 2385, 2387, 4189, 4190, 4192,
                4533, 4534, 4535, 4536 },
      ar \in { PyNone, PyStr(<< "P","l","a","t","i","n","u","m"," ","E","l","i","t","e" >>) } }

FleetInputs ==
  FleetsByEvents \cup FleetsByFinance \cup FleetsByRating \cup FleetsNearTier

\* TailScoreData of a three-year-old aircraft owned by its operator
BareTail ==
  [aircraft_age_years |-> 3000, operator_name |-> PyStr(NameB),
   registered_owner |-> PyStr(<< "J","E","T"," ","C","O"," ","L","L","C" >>), fractional_owner |-> FALSE,
   tail_events |-> << >>]

\* aircraft_age_years in Milli: 0, 3 and 30 years
AircraftAges ==
  { 0, 3000, 30000 }

\* every event list with every aircraft age, and every ownership
TailInputs ==
  { [BareTail EXCEPT !.tail_events = ev, !.aircraft_age_years = age] :
      ev \in SeqsUpTo(EventKinds, MaxEvents), age \in AircraftAges }
    \cup
  { [BareTail EXCEPT !.operator_name = on, !.registered_owner = ro,
                     !.fractional_owner = fo] :
      on \in { PyNone, PyStr(<< >>), PyStr(NameB) },
      ro \in { PyNone, PyStr(<< >>), PyStr(<< "J","E","T"," ","C","O"," ","L","L","C" >>), PyStr(NameA) },
      fo \in BOOLEAN }

\* the fleets scored together with every tail, and with an LLM client
FewFleets ==
  { BareFleet(0, 1), BareFleet(15500, 12),
    [BareFleet(15500, 1) EXCEPT !.fleet_events =
       << [event_type |-> PyStr(<< "A","c","c","i","d","e","n","t" >>), injury_level |-> PyStr(<< "F","a","t","a","l" >>),
           severity |-> Absent, event_date |-> DateBack(30)] >>] }

FewTails ==
  { BareTail,
    [BareTail EXCEPT !.tail_events =
       << [event_type |-> PyStr(<< "E","n","f","o","r","c","e","m","e","n","t" >>), injury_level |-> Absent,
           severity |-> PyStr(<< "M","a","j","o","r" >>), event_date |-> NaiveStampBack(400)] >>],
    [BareTail EXCEPT !.tail_events =
       << [event_type |-> PyStr(<< "S","e","r","i","o","u","s"," ","I","n","c","i","d","e","n","t" >>), injury_level |-> Absent,
           severity |-> Absent, event_date |-> DateBack(FiveYearsDays)] >>] }

\* the arguments of one call: every fleet with the plain tail and a few
\* fleets with every tail on a calculator without llm_client, a few of
\* each on a calculator with one
CallInputs ==
  { [fleet_data |-> f, tail_data |-> BareTail, llm_client |-> FALSE] : f \in FleetInputs }
    \cup
  { [fleet_data |-> f, tail_data |-> t, llm_client |-> FALSE] :
      f \in FewFleets, t \in TailInputs }
    \cup
  { [fleet_data |-> f, tail_data |-> t, llm_client |-> TRUE] :
      f \in FewFleets \cup
            { [BareFleet(15500, 12) EXCEPT !.bankruptcy_history =
                 << [status |-> PyStr(<< "d","i","s","c","h","a","r","g","e","d" >>), date |-> NaiveStampBack(400)] >>] },
      t \in FewTails }

IdleInput ==
  [fleet_data |-> BareFleet(0, 1), tail_data |-> BareTail, llm_client |-> FALSE]

\* no call of calculate_trust_score is made
CalcIdle ==
  /\ now = Day0
  /\ inp = [c \in {1} |-> IdleInput]
  /\ pc = [c \in {1} |-> "idle"]
  /\ llm = [c \in {1} |-> "idle"]
  /\ loc = [c \in {1} |-> NoLocals]
  /\ ret = [c \in {1} |-> NoResult]

\* one call, on any of the inputs
CalcInit ==
  /\ now = Day0
  /\ inp \in [{1} -> CallInputs]
  /\ pc = [c \in {1} |-> "start"]
  /\ llm = [c \in {1} |-> "idle"]
  /\ loc = [c \in {1} |-> NoLocals]
  /\ ret = [c \in {1} |-> NoResult]

\* one call on a calculator with an llm_client, on a few fleets and tails
FairInit ==
  /\ now = Day0
  /\ \E f \in FewFleets, t \in FewTails, l \in BOOLEAN :
       inp = [c \in {1} |-> [fleet_data |-> f, tail_data |-> t, llm_client |-> l]]
  /\ pc = [c \in {1} |-> "start"]
  /\ llm = [c \in {1} |-> "idle"]
  /\ loc = [c \in {1} |-> NoLocals]
  /\ ret = [c \in {1} |-> NoResult]

\* two calls on the same fleet and tail, the second on a calculator with an
\* llm_client, the first with or without one
PairInit ==
  /\ now = Day0
  /\ \E f \in FewFleets, t \in FewTails, l \in BOOLEAN :
       inp = [c \in {1, 2} |->
                [fleet_data |-> f, tail_data |-> t,
                 llm_client |-> IF c = 1 THEN l ELSE TRUE]]
  /\ pc = [c \in {1, 2} |-> "start"]
  /\ llm = [c \in {1, 2} |-> "idle"]
  /\ loc = [c \in {1, 2} |-> NoLocals]
  /\ ret = [c \in {1, 2} |-> NoResult]

\* the arguments of callers that share one calculator: a young operator with
\* a tail whose event carries a naive date-time, an operator with a fatal
\* accident with the plain tail, an established operator with a tail that
\* had a serious incident five years ago
CrowdArguments ==
  { << BareFleet(0, 1),
       [BareTail EXCEPT !.tail_events =
          << [event_type |-> PyStr(<< "E","n","f","o","r","c","e","m","e","n","t" >>), injury_level |-> Absent,
              severity |-> PyStr(<< "M","a","j","o","r" >>), event_date |-> NaiveStampBack(400)] >>] >>,
    << [BareFleet(15500, 1) EXCEPT !.fleet_events =
          << [event_type |-> PyStr(<< "A","c","c","i","d","e","n","t" >>), injury_level |-> PyStr(<< "F","a","t","a","l" >>),
              severity |-> Absent, event_date |-> DateBack(30)] >>],
       BareTail >>,
    << BareFleet(15500, 12),
       [BareTail EXCEPT !.tail_events =
          << [event_type |-> PyStr(<< "S","e","r","i","o","u","s"," ","I","n","c","i","d","e","n","t" >>), injury_level |-> Absent,
              severity |-> Absent, event_date |-> DateBack(FiveYearsDays)] >>] >> }

\* two calls on one calculator, each on arguments of its own; the
\* calculator has an llm_client or not
CrowdInit ==
  /\ now = Day0
  /\ \E a \in [{1, 2} -> CrowdArguments], l \in BOOLEAN :
       inp = [c \in {1, 2} |->
                [fleet_data |-> a[c][1], tail_data |-> a[c][2], llm_client |-> l]]
  /\ pc = [c \in {1, 2} |-> "start"]
  /\ llm = [c \in {1, 2} |-> "idle"]
  /\ loc = [c \in {1, 2} |-> NoLocals]
  /\ ret = [c \in {1, 2} |-> NoResult]

\* FleetScoreData with a negative fleet_size or a negative operator_age_years
ImpossibleFleets ==
  { BareFleet(0 - 500, 12),
    [BareFleet(15500, 0 - 1) EXCEPT !.fleet_events =
       << [event_type |-> PyStr(<< "A","c","c","i","d","e","n","t" >>), injury_level |-> PyStr(<< "F","a","t","a","l" >>),
           severity |-> Absent, event_date |-> DateBack(30)] >>],
    [BareFleet(0 - 500, 0 - 3) EXCEPT !.fleet_events =
       << [event_type |-> PyStr(<< "I","n","c","i","d","e","n","t" >>), injury_level |-> Absent,
           severity |-> Absent, event_date |-> StampBack(730)] >>] }

\* TailScoreData with a negative aircraft_age_years
ImpossibleTails ==
  { [BareTail EXCEPT !.aircraft_age_years = 0 - 1000],
    [BareTail EXCEPT !.aircraft_age_years = 0 - 1, !.fractional_owner = TRUE] }

\* one call with an impossible value in the fleet data, in the tail data or
\* in both, on a calculator without or with an llm_client
ContractInit ==
  /\ now = Day0
  /\ \E l \in BOOLEAN :
       \/ \E f \in ImpossibleFleets, t \in FewTails \cup ImpossibleTails :
            inp = [c \in {1} |-> [fleet_data |-> f, tail_data |-> t, llm_client |-> l]]
       \/ \E f \in FewFleets, t \in ImpossibleTails :
            inp = [c \in {1} |-> [fleet_data |-> f, tail_data |-> t, llm_client |-> l]]
  /\ pc = [c \in {1} |-> "start"]
  /\ llm = [c \in {1} |-> "idle"]
  /\ loc = [c \in {1} |-> NoLocals]
  /\ ret = [c \in {1} |-> NoResult]

----------------------------------------------------------------------------
(* One call of a pure method of the calculator on one argument            *)

\* the values a key of an event dict takes: missing, None or a text
EventTypeValues ==
  { Absent, PyNone, PyStr(<<  >>),
    PyStr(<< "A","c","c","i","d","e","n","t" >>), PyStr(<< "A","I","R","C","R","A","F","T"," ","A","C","C","I","D","E","N","T" >>), PyStr(<< "S","e","r","i","o","u","s"," ","A","c","c","i","d","e","n","t" >>),
    PyStr(<< "S","e","r","i","o","u","s"," ","I","n","c","i","d","e","n","t" >>), PyStr(<< "M","a","j","o","r"," ","E","n","f","o","r","c","e","m","e","n","t" >>),
    PyStr(<< "F","a","t","a","l"," ","C","r","a","s","h" >>), PyStr(<< "I","n","c","i","d","e","n","t" >>) }

InjuryLevelValues ==
  { Absent, PyNone, PyStr(<< "F","a","t","a","l" >>), PyStr(<< "N","O","N","-","F","A","T","A","L" >>), PyStr(<< "S","e","r","i","o","u","s" >>),
    PyStr(<< "M","a","j","o","r" >>), PyStr(<< "M","i","n","o","r" >>) }

SeverityValues ==
  { Absent, PyNone, PyStr(<< "M","a","j","o","r" >>), PyStr(<< "M","A","J","O","R"," ","V","I","O","L","A","T","I","O","N" >>), PyStr(<< "S","e","r","i","o","u","s" >>),
    PyStr(<< "m","i","n","o","r" >>) }

SeverityInputs ==
  { [event_type |-> t, injury_level |-> i, severity |-> s, event_date |-> Absent] :
      t \in EventTypeValues, i \in InjuryLevelValues, s \in SeverityValues }

\* trust scores in Milli, on and next to the tier boundaries
TierInputs ==
  { 0, 1, 35000, 50000, 69990, 69999, 70000, 70001, 75000, 79999, 80000,
    80001, 89990, 89999, 90000, 90001, 95000, 100000 }

\* date strings handed to _parse_date
ParseInputs ==
  { PyNone, PyStr(<<  >>), PyStr(<< "U","n","k","n","o","w","n" >>), PyStr(<< "T" >>),
    PyStr(<< "2","0","2","4","-","0","6","-","0","1" >>), PyStr(<< "2","0","2","4","-","6","-","1" >>), PyStr(<< "2","0","2","4","-","0","2","-","3","0" >>),
    PyStr(<< "2","0","2","4","-","1","3","-","0","1" >>),
    PyStr(<< "2","0","2","4","-","0","6","-","0","1","T","0","0",":","0","0",":","0","0","Z" >>), PyStr(<< "2","0","2","4","-","0","6","-","0","1","T","1","2",":","3","0",":","0","0","+","0","0",":","0","0" >>),
    PyStr(<< "2","0","2","4","-","0","6","-","0","1","T","1","0",":","3","0",":","0","0","-","0","5",":","0","0" >>), PyStr(<< "2","0","2","4","-","0","6","-","0","1","T","0","0",":","0","0",":","0","0" >>),
    PyStr(<< "2","0","2","4","-","0","6","-","0","1","T","1","0",":","3","0" >>), PyStr(<< "2","0","2","4","-","0","6","-","0","1"," ","0","0",":","0","0",":","0","0" >>),
    PyStr(<< "2","0","2","4","-","0","6","-","0","1"," ","0","0",":","0","0",":","0","0","+","0","0",":","0","0" >>),
    PyStr(<< "0","6","/","0","1","/","2","0","2","4" >>), PyStr(<< "6","/","1","/","2","0","2","4" >>), PyStr(<< "1","3","/","0","1","/","2","0","2","4" >>),
    PyStr(<< "A","p","r"," ","4",","," ","2","0","2","5" >>), PyStr(<< "2","0","2","4","-","0","6","-","0","1","Z" >>), PyStr(<< "2","0","2","4","-","0","6","-","0","1","T" >>) }

\* operator and tail scores after the clamp, in Milli
ScoreGrid ==
  { 0, 1, 8460, 50000, 95000, 100000 }

\* operator_age_years in Milli
AgeGrid ==
  { 0, 1, 10, 100, 500, 1000, 2000, 2604, 5000, 15500, 26041, 30000, 100000 }

\* two ages for the same pair of scores, the first not above the second
TrustInputs ==
  { [operator_score |-> o, tail_score |-> t, age |-> p[1], older |-> p[2]] :
      o \in ScoreGrid, t \in { 0, 40000, 100000 },
      p \in { q \in AgeGrid \X AgeGrid : q[1] <= q[2] } }

ProbeIdle ==
  /\ pFn = "idle"
  /\ pArg = 0
  /\ pOut = 0
  /\ pPc = "idle"

ProbeInit ==
  /\ \/ pFn = "_get_event_severity" /\ pArg \in SeverityInputs
     \/ pFn = "get_score_tier" /\ pArg \in TierInputs
     \/ pFn = "_parse_date" /\ pArg \in ParseInputs
     \/ pFn = "trust_score" /\ pArg \in TrustInputs
  /\ pOut = 0
  /\ pPc = "in"

Returned(value) ==
  /\ pOut' = value
  /\ pPc' = "out"
  /\ UNCHANGED << pFn, pArg >>
  /\ UNCHANGED << normVars, statusVars, certVars, calcVars, uccVars >>

ProbeSeverity ==
  /\ pPc = "in"
  /\ pFn = "_get_event_severity"
  /\ Returned(GetEventSeverity(pArg))

ProbeTier ==
  /\ pPc = "in"
  /\ pFn = "get_score_tier"
  /\ Returned(GetScoreTier(pArg))

ProbeParse ==
  /\ pPc = "in"
  /\ pFn = "_parse_date"
  /\ Returned(ParseDate(pArg))

\* lines 162-166 of calculate_trust_score for the same scores at two ages
ProbeTrust ==
  /\ pPc = "in"
  /\ pFn = "trust_score"
  /\ Returned([at_age   |-> ComposePhase(pArg.age, pArg.operator_score, pArg.tail_score),
               at_older |-> ComposePhase(pArg.older, pArg.operator_score, pArg.tail_score)])

----------------------------------------------------------------------------
(* UCC verification service (backend/src/scoring/ucc_service.py):          *)
(* _retry_with_backoff and the state loop of verify_ucc_filings.           *)
(* State names, abbreviations and URLs are only compared, so they are      *)
(* plain strings here; "" stands for None or an empty string.              *)

\* largest max_retries tried on _retry_with_backoff alone
MaxRetries == 5

\* no attempt made yet
NoOutcome ==
  [kind |-> "none", call |-> 0]

\* _retry_with_backoff is not running
RetryIdle ==
  /\ rMax = 0
  /\ rK = 0
  /\ rAttempt = 0
  /\ rCalls = 0
  /\ rSlept = 0
  /\ rOut = NoOutcome
  /\ rPc = "idle"

\* _retry_with_backoff(func, max_retries) is entered; func raises on its
\* first rK calls and returns on every later one
RetryInit ==
  /\ rMax \in 0..MaxRetries
  /\ rK \in 0..(MaxRetries + 1)
  /\ rAttempt = 0
  /\ rCalls = 0
  /\ rSlept = 0
  /\ rOut = NoOutcome
  /\ rPc = "try"

\* a loop that gives up one attempt later: attempt == max_retries + 1
AttemptOnceMore ==
  /\ rPc = "try"
  /\ rCalls' = rCalls + 1
  /\ IF rCalls >= rK
       THEN /\ rOut' = [kind |-> "result", call |-> rCalls + 1]
            /\ rPc' = "returned"
       ELSE IF rAttempt = rMax + 1
         THEN /\ rOut' = [kind |-> "error", call |-> rCalls + 1]
              /\ rPc' = "raised"
         ELSE /\ rOut' = [kind |-> "last_error", call |-> rCalls + 1]
              /\ rPc' = "sleep"
  /\ UNCHANGED << rMax, rK, rAttempt, rSlept >>

\* one pass of the for loop up to its return, raise or sleep (lines 55-68):
\* await func(); its result is returned, its exception is kept in
\* last_error and raised again when attempt == max_retries
Attempt ==
  /\ rPc = "try"
  /\ rCalls' = rCalls + 1
  /\ IF rCalls >= rK
       THEN /\ rOut' = [kind |-> "result", call |-> rCalls + 1]
            /\ rPc' = "returned"
       ELSE IF rAttempt = rMax
         THEN /\ rOut' = [kind |-> "error", call |-> rCalls + 1]
              /\ rPc' = "raised"
         ELSE /\ rOut' = [kind |-> "last_error", call |-> rCalls + 1]
              /\ rPc' = "sleep"
  /\ UNCHANGED << rMax, rK, rAttempt, rSlept >>

\* await asyncio.sleep(initial_delay * 2 ** attempt) and the next pass of
\* the loop (lines 70-79); rSlept is in units of initial_delay
Backoff ==
  /\ rPc = "sleep"
  /\ rSlept' = rSlept + 2 ^ rAttempt
  /\ rAttempt' = rAttempt + 1
  /\ rPc' = "try"
  /\ UNCHANGED << rMax, rK, rCalls, rOut >>

\* the entries of the UCC state options file: a state with a custom URL,
\* another one, and a state whose URL is blank
StateOptions ==
  << [text |-> "Florida", abbreviation |-> "FL", value |-> "https://fl"],
     [text |-> "Texas",   abbreviation |-> "TX", value |-> "https://tx"],
     [text |-> "Ohio",    abbreviation |-> "OH", value |-> ""] >>

\* the first element of a sequence of options that satisfies a match, as a
\* set: empty when there is none
FirstOption(hits) ==
  IF hits = {} THEN {}
  ELSE { StateOptions[CHOOSE i \in hits : \A j \in hits : i <= j] }

\* _get_state_info(state_name, state_options): by abbreviation first, then
\* by full name; the empty set for None
GetStateInfo(state_name) ==
  IF FirstOption({ i \in DOMAIN StateOptions :
                     StateOptions[i].abbreviation = state_name }) # {}
    THEN FirstOption({ i \in DOMAIN StateOptions :
                         StateOptions[i].abbreviation = state_name })
    ELSE FirstOption({ i \in DOMAIN StateOptions : StateOptions[i].text = state_name })

\* _get_ucc_url_for_state: the URL, "" for None
GetUccUrlForState(state_name) ==
  IF \E o \in GetStateInfo(state_name) : o.value # ""
    THEN (CHOOSE o \in GetStateInfo(state_name) : TRUE).value
    ELSE ""

\* lines 463-475: the states of the results without the None values and
\* without duplicates, in the order of their first occurrence
UniqueStates(results) ==
  LET F[i \in 0..Len(results)] ==
        IF i = 0 THEN << >>
        ELSE IF results[i] = "" \/ \E j \in 1..Len(F[i-1]) : F[i-1][j] = results[i]
          THEN F[i-1]
          ELSE Append(F[i-1], results[i])
  IN  F[Len(results)]

\* lines 477-486: the full name of faa_state is appended when it is known
\* and not in the list
WithFaaState(states, faa_state) ==
  IF faa_state = "" \/ GetStateInfo(faa_state) = {} THEN states
  ELSE IF \E j \in 1..Len(states) :
            states[j] = (CHOOSE o \in GetStateInfo(faa_state) : TRUE).text
    THEN states
    ELSE Append(states, (CHOOSE o \in GetStateInfo(faa_state) : TRUE).text)

\* verify_ucc_filings is not running
VerifyIdle ==
  /\ vNtsb = << >>
  /\ vFaa = ""
  /\ vQueue = << >>
  /\ vIdx = 0
  /\ vVisited = << >>
  /\ vPc = "idle"

UccIdle ==
  RetryIdle /\ VerifyIdle

\* the State value of an NTSB result: none, a state with a URL, a state
\* whose URL is blank, a state that is not in the options file
NtsbStates ==
  { "", "Florida", "Texas", "Ohio", "Guam" }

FaaStates ==
  { "", "FL", "TX", "ZZ" }

\* longest list of NTSB results
MaxResults == 2

\* verify_ucc_filings(operator_name, ntsb_results, faa_state) with no state
\* given, connected to the browser (line 448)
VerifyInit ==
  /\ vNtsb \in UNION { [1..k -> NtsbStates] : k \in 0..MaxResults }
  /\ vFaa \in FaaStates
  /\ vQueue = << >>
  /\ vIdx = 0
  /\ vVisited = << >>
  /\ vPc = "start"
  /\ RetryIdle

\* lines 457-490: states_to_process
DetermineStates ==
  /\ vPc = "start"
  /\ vQueue' = WithFaaState(UniqueStates(vNtsb), vFaa)
  /\ vIdx' = 1
  /\ vPc' = "next"
  /\ UNCHANGED << vNtsb, vFaa, vVisited >>
  /\ UNCHANGED << rMax, rK, rAttempt, rCalls, rSlept, rOut, rPc >>

\* lines 492-510: the head of the loop; a state without a UCC URL is
\* skipped, for any other _retry_with_backoff is entered with max_retries=5.
\* How often _process_single_state raises is up to the browser and the site.
BeginState ==
  /\ vPc = "next"
  /\ vIdx <= Len(vQueue)
  /\ IF vQueue[vIdx] = "" \/ GetUccUrlForState(vQueue[vIdx]) = ""
       THEN /\ vIdx' = vIdx + 1
            /\ UNCHANGED << vPc, rMax, rK, rAttempt, rCalls, rSlept, rOut, rPc >>
       ELSE /\ vPc' = "retrying"
            /\ rMax' = 5
            /\ rK' \in { 0, 1, 6 }
            /\ rAttempt' = 0
            /\ rCalls' = 0
            /\ rSlept' = 0
            /\ rOut' = NoOutcome
            /\ rPc' = "try"
            /\ vIdx' = vIdx
  /\ UNCHANGED << vNtsb, vFaa, vQueue, vVisited >>

\* lines 522-535: the retry returned; the result is appended to
\* visited_states and its page info to all_page_info
StateSucceeded ==
  /\ vPc = "retrying"
  /\ rPc = "returned"
  /\ vVisited' = Append(vVisited, [state |-> vQueue[vIdx], status |-> "result",
                                   calls |-> rCalls])
  /\ vPc' = "wait"
  /\ rPc' = "idle"
  /\ UNCHANGED << vNtsb, vFaa, vQueue, vIdx >>
  /\ UNCHANGED << rMax, rK, rAttempt, rCalls, rSlept, rOut >>

\* the record the except clause appends (lines 546-553)
FailedRecord(state_name, calls) ==
  [state |-> state_name, status |-> "failed_after_retries", calls |-> calls]

\* lines 537-539, still inside the try: await page.wait_for_timeout(3000)
\* returns, or raises (the browser or the connection is gone) and the
\* except clause of line 541 runs
WaitBeforeNext ==
  /\ vPc = "wait"
  /\ \E raises \in BOOLEAN :
       vVisited' = IF raises THEN Append(vVisited, FailedRecord(vQueue[vIdx], rCalls))
                   ELSE vVisited
  /\ vIdx' = vIdx + 1
  /\ vPc' = "next"
  /\ UNCHANGED << vNtsb, vFaa, vQueue >>
  /\ UNCHANGED << rMax, rK, rAttempt, rCalls, rSlept, rOut, rPc >>

\* lines 541-554: the retry raised after its last attempt
StateFailed ==
  /\ vPc = "retrying"
  /\ rPc = "raised"
  /\ vVisited' = Append(vVisited, FailedRecord(vQueue[vIdx], rCalls))
  /\ vIdx' = vIdx + 1
  /\ vPc' = "next"
  /\ rPc' = "idle"
  /\ UNCHANGED << vNtsb, vFaa, vQueue >>
  /\ UNCHANGED << rMax, rK, rAttempt, rCalls, rSlept, rOut >>

\* line 560: the loop is over, await browser.close()
CloseBrowser ==
  /\ vPc = "next"
  /\ vIdx > Len(vQueue)
  /\ vPc' = "closed"
  /\ UNCHANGED << vNtsb, vFaa, vQueue, vIdx, vVisited >>
  /\ UNCHANGED << rMax, rK, rAttempt, rCalls, rSlept, rOut, rPc >>

\* one pass of the retry loop, alone or inside verify_ucc_filings
RetryAttempt ==
  /\ Attempt
  /\ UNCHANGED << vNtsb, vFaa, vQueue, vIdx, vVisited, vPc >>
  /\ UNCHANGED << normVars, statusVars, certVars, calcVars, probeVars >>

RetrySleep ==
  /\ Backoff
  /\ UNCHANGED << vNtsb, vFaa, vQueue, vIdx, vVisited, vPc >>
  /\ UNCHANGED << normVars, statusVars, certVars, calcVars, probeVars >>

\* one step of verify_ucc_filings itself
VerifyStep ==
  /\ \/ DetermineStates
     \/ BeginState
     \/ StateSucceeded
     \/ WaitBeforeNext
     \/ StateFailed
     \/ CloseBrowser
  /\ UNCHANGED << normVars, statusVars, certVars, calcVars, probeVars >>

----------------------------------------------------------------------------
(* Specifications                                                          *)

NextNorm ==
  NormalizeCall

\* the other functions are not called
InitNorm ==
  NormInit /\ StatusIdle /\ CertIdle /\ CalcIdle /\ ProbeIdle /\ UccIdle

\* one call of normalize_ucc_filings on every raw result and source kind
SpecNorm ==
  InitNorm /\ [][NextNorm]_vars

NextStatus ==
  StatusOnce \/ StatusTwice

\* the other functions are not called
InitStatus ==
  StatusInit /\ NormIdle /\ CertIdle /\ CalcIdle /\ ProbeIdle /\ UccIdle

\* _normalize_status applied twice to every status input
SpecStatus ==
  InitStatus /\ [][NextStatus]_vars

NextCert ==
  CertScore \/ CertScoreRecased

\* the other functions are not called
InitCert ==
  CertInit /\ NormIdle /\ StatusIdle /\ CalcIdle /\ ProbeIdle /\ UccIdle

\* _calculate_fleet_certification_score on every pair of ratings and on
\* its re-casings
SpecCert ==
  InitCert /\ [][NextCert]_vars

NextProbe ==
  ProbeSeverity \/ ProbeTier \/ ProbeParse \/ ProbeTrust

\* the other functions are not called
InitProbe ==
  ProbeInit /\ NormIdle /\ StatusIdle /\ CertIdle /\ CalcIdle /\ UccIdle

\* one call of _get_event_severity, get_score_tier, _parse_date, or of the
\* trust score formula at two ages
SpecProbe ==
  InitProbe /\ [][NextProbe]_vars

\* what the LLM service may do with a request
Service(c) ==
  \/ LlmAnswers(c)
  \/ LlmRaises(c)
  \/ LlmHangs(c)

Next ==
  \/ \E c \in Calls : ScoreWithoutLlm(c)
  \/ \E c \in Calls : FleetScoreBegin(c)
  \/ \E c \in Calls : TailScoreBegin(c)
  \/ \E c \in Calls : ComposeScores(c)
  \/ \E c \in Calls : ReturnResult(c)
  \/ \E c \in Calls : LlmAnswers(c)
  \/ \E c \in Calls : LlmRaises(c)
  \/ \E c \in Calls : LlmHangs(c)
  \/ Tick

\* the other functions are not called
Init ==
  CalcInit /\ NormIdle /\ StatusIdle /\ CertIdle /\ ProbeIdle /\ UccIdle

\* one call of calculate_trust_score on every input
Spec ==
  Init /\ [][Next]_vars

\* the other functions are not called
InitPair ==
  PairInit /\ NormIdle /\ StatusIdle /\ CertIdle /\ ProbeIdle /\ UccIdle

\* two concurrent calls on the same input
SpecPair ==
  InitPair /\ [][Next]_vars

\* the other functions are not called
InitCrowd ==
  CrowdInit /\ NormIdle /\ StatusIdle /\ CertIdle /\ ProbeIdle /\ UccIdle

\* two concurrent calls on one calculator, on different inputs
SpecCrowd ==
  InitCrowd /\ [][Next]_vars

\* the other functions are not called
InitContract ==
  ContractInit /\ NormIdle /\ StatusIdle /\ CertIdle /\ ProbeIdle /\ UccIdle

\* one call of calculate_trust_score on data with an impossible value
SpecContract ==
  InitContract /\ [][Next]_vars

NextRetry ==
  \/ RetryAttempt
  \/ RetrySleep

\* the other functions are not called
InitRetry ==
  RetryInit /\ VerifyIdle /\ NormIdle /\ StatusIdle /\ CertIdle /\ CalcIdle /\ ProbeIdle

\* one call of _retry_with_backoff, for every max_retries and every func
\* that raises a number of times and then returns
SpecRetry ==
  InitRetry /\ [][NextRetry]_vars

NextVerify ==
  \/ VerifyStep
  \/ RetryAttempt
  \/ RetrySleep

\* the other functions are not called
InitVerify ==
  VerifyInit /\ NormIdle /\ StatusIdle /\ CertIdle /\ CalcIdle /\ ProbeIdle

\* the state loop of one call of verify_ucc_filings
SpecVerify ==
  InitVerify /\ [][NextVerify]_vars

\* a request sent to the service has some outcome (an answer, an error, or
\* silence for good), and the event loop resumes the coroutine whose awaited
\* tail explanation or insights call has completed
Fairness ==
  /\ WF_vars(Service(1))
  /\ WF_vars(ComposeScores(1))
  /\ WF_vars(ReturnResult(1))

\* the other functions are not called
InitFair ==
  FairInit /\ NormIdle /\ StatusIdle /\ CertIdle /\ ProbeIdle /\ UccIdle

\* one call under that scheduling
FairSpec ==
  InitFair /\ [][Next]_vars /\ Fairness

----------------------------------------------------------------------------
(* Calculator properties                                                   *)

\* the calls that are past calculate_fleet_score's clamp
PastFleetClamp ==
  { "awaitFleet", "awaitTail", "awaitInsights", "done" }

\* the calls that are past calculate_tail_score's clamp
PastTailClamp ==
  { "awaitTail", "awaitInsights", "done" }

\* C3: the operator score OS of calculate_fleet_score and the tail score TS
\* of calculate_tail_score lie in [0, 100], and so do the fleet_score and the
\* tail_score of the dict calculate_trust_score returns.
C3_ScoresClamped ==
  \A c \in Calls :
    /\ pc[c] \in PastFleetClamp => loc[c].operator_score \in 0..100000
    /\ pc[c] \in PastTailClamp => loc[c].tail_score \in 0..100000
    /\ pc[c] = "done" =>
         /\ ret[c].numbers.fleet_score \in 0..100000
         /\ ret[c].numbers.tail_score \in 0..100000
         /\ ret[c].numbers.operator_score \in 0..100000

\* a call returned whose 100 - ORF + FSF - CSF was below 0 and whose
\* 100 - MRT + OST - 5 * IHT was above 100
C3_Witness ==
  \E c \in Calls :
    /\ pc[c] = "done"
    /\ 100000 - loc[c].orf + loc[c].fsf - loc[c].csf * 1000 < 0
    /\ 100000 - loc[c].mrt + loc[c].ost * 1000 - 5 * loc[c].iht > 100000
    /\ ret[c].numbers.operator_score = 0
    /\ ret[c].numbers.tail_score = 100000

\* C4: two calls on the same fleet and tail data that read the same clock
\* return the same numeric fields, with or without an llm_client and whether
\* it answered or raised; and a call is left by an exception only from a
\* score component, never from a narrative call.
C4_NumbersIndependentOfLlm ==
  /\ \A c1, c2 \in Calls :
       ( /\ pc[c1] = "done"
         /\ pc[c2] = "done"
         /\ inp[c1].fleet_data = inp[c2].fleet_data
         /\ inp[c1].tail_data = inp[c2].tail_data
         /\ loc[c1].nowFleet = loc[c2].nowFleet
         /\ loc[c1].nowTail = loc[c2].nowTail )
       => ret[c1].numbers = ret[c2].numbers
  /\ \A c \in Calls :
       pc[c] = "raised" => loc[c].raised_in \in { "ORF", "FSF", "IHT" }

\* a call without llm_client and a call whose fleet explanation failed and
\* whose insights were generated both returned, on the same clock readings
C4_Witness ==
  /\ DOMAIN pc = { 1, 2 }
  /\ pc[1] = "done"
  /\ pc[2] = "done"
  /\ ~inp[1].llm_client
  /\ ~ret[1].ai_insights
  /\ ret[2].ai_insights
  /\ ~ret[2].fleet_explanation
  /\ ret[2].tail_explanation
  /\ loc[1].nowFleet = loc[2].nowFleet
  /\ loc[1].nowTail = loc[2].nowTail
  /\ ret[1].numbers.trust_score > 50000

\* C5: a call of calculate_trust_score that has its scores and waits for
\* the tail explanation or for the insights eventually returns its result,
\* whatever the LLM service does.
C5_EventuallyReturns ==
  [](pc[1] \in { "awaitTail", "awaitInsights" } => <>(pc[1] = "done"))

\* a bankruptcy record that is active (in any letter case) or that carries a
\* date _parse_date reads, less than 5 * 365 days before today
IsFloorRecord(record, today) ==
  \/ StrLower(GetOrEmpty(record, "status")) = << "a","c","t","i","v","e" >>
  \/ /\ ParseDate(record.date).ok
     /\ ParseDate(record.date).day > today - FiveYearsDays

\* C6: when a bankruptcy_history entry is active or dated within the last 5
\* years, _calculate_fleet_financial_score returns exactly 0, whatever the
\* UCC filings are.
C6_BankruptcyFloor ==
  \A c \in Calls :
    ( /\ pc[c] \in PastFleetClamp \cup { "raised" }
      /\ loc[c].raised_in # "ORF"
      /\ \E i \in 1..Len(inp[c].fleet_data.bankruptcy_history) :
           IsFloorRecord(inp[c].fleet_data.bankruptcy_history[i], loc[c].nowFleet) )
    => ( loc[c].raised_in # "FSF" /\ loc[c].fsf = 0 )

\* FleetScoreData with no events, no filings, no bankruptcy history and no
\* rating
ZeroEvidence(fleet) ==
  /\ fleet.fleet_events = << >>
  /\ fleet.ucc_filings = << >>
  /\ fleet.bankruptcy_history = << >>
  /\ fleet.argus_rating = PyNone
  /\ fleet.wyvern_rating = PyNone

\* C7: for a fleet with no evidence ORF = 0, FSF = 5, CSF = 10 and OS = 95;
\* at operator age 0 the confidence score is 0 and fleet_score and
\* trust_score are exactly 50.
C7_ZeroEvidenceDefaults ==
  \A c \in Calls :
    ( pc[c] = "done" /\ ZeroEvidence(inp[c].fleet_data) ) =>
      /\ ret[c].numbers.ORF = 0
      /\ ret[c].numbers.FSF = 5000
      /\ ret[c].numbers.CSF = 10
      /\ ret[c].numbers.operator_score = 95000
      /\ inp[c].fleet_data.operator_age_years = 0 =>
           /\ ret[c].numbers.confidence_score = 0
           /\ ret[c].numbers.fleet_score = 50000
           /\ ret[c].numbers.trust_score = 50000

\* a call on a fleet with no evidence and age 0 returned, with a tail that
\* has incidents on record
C7_Witness ==
  \E c \in Calls :
    /\ pc[c] = "done"
    /\ ZeroEvidence(inp[c].fleet_data)
    /\ inp[c].fleet_data.operator_age_years = 0
    /\ ret[c].numbers.IHT > 0
    /\ ret[c].numbers.tail_score < 100000
    /\ ret[c].numbers.trust_score = 50000

\* the points the rating tables give a rating: its entry when it is one of
\* the table's names in any letter case, otherwise (missing, empty, "No",
\* unrecognised) 10
TablePoints(table, rating) ==
  IF Truthy(rating) /\ \E i \in 1..Len(table) : StrLower(table[i].key) = StrLower(rating.s)
    THEN table[CHOOSE i \in 1..Len(table) :
                 StrLower(table[i].key) = StrLower(rating.s)].points
    ELSE 10

\* C8: CSF is the minimum of the ARGUS points and the WYVERN points of the
\* two ratings, a missing, empty, "No" or unrecognised rating counting 10.
C8_CertificationCredit ==
  cPc \in { "one", "two" } =>
    cCsf = Min(TablePoints(ArgusPoints, cArgus), TablePoints(WyvernPoints, cWyvern))

\* C9: two pairs of ratings that differ only in letter case give the same
\* CSF.
C9_CaseInsensitive ==
  cPc = "two" => cCsf2 = cCsf

\* the field of the event is a text that contains the word, in any letter case
Mentions(event, field, word) ==
  /\ event[field].tag = "str"
  /\ Contains(StrLower(event[field].s), word)

\* the severity rules in their order
SeverityRules(event) ==
  << [applies |-> Mentions(event, "event_type", << "a","c","c","i","d","e","n","t" >>)
                    /\ Mentions(event, "injury_level", << "f","a","t","a","l" >>),
      severity |-> 50],
     [applies |-> Mentions(event, "event_type", << "a","c","c","i","d","e","n","t" >>),
      severity |-> 25],
     [applies |-> Mentions(event, "event_type", << "s","e","r","i","o","u","s" >>)
                    \/ Mentions(event, "injury_level", << "s","e","r","i","o","u","s" >>),
      severity |-> 15],
     [applies |-> Mentions(event, "event_type", << "m","a","j","o","r" >>)
                    \/ Mentions(event, "severity", << "m","a","j","o","r" >>),
      severity |-> 10],
     [applies |-> TRUE,
      severity |-> 5] >>

FirstApplicable(rules) ==
  rules[CHOOSE i \in 1..Len(rules) :
          rules[i].applies /\ \A j \in 1..(i - 1) : ~rules[j].applies]

TierThresholds ==
  << [tier |-> "Pinnacle", least |-> 90000],
     [tier |-> "Premier", least |-> 80000],
     [tier |-> "Benchmark", least |-> 70000] >>

\* the tiers whose threshold the score reaches and that no higher tier
\* takes; Standard when the score reaches no threshold
TiersOf(score) ==
  { TierThresholds[i].tier : i \in { k \in 1..Len(TierThresholds) :
        /\ score >= TierThresholds[k].least
        /\ \A j \in 1..(k - 1) : score < TierThresholds[j].least } }
  \cup { t \in { "Standard" } : \A k \in 1..Len(TierThresholds) : score < TierThresholds[k].least }

\* C14: get_score_tier gives the first tier, in descending order, whose
\* threshold the score reaches (90 Pinnacle, 80 Premier, 70 Benchmark),
\* Standard otherwise; the boundary scores belong to the higher tier and
\* every score has exactly one tier.
C14_TierThresholds ==
  (pFn = "get_score_tier" /\ pPc = "out") =>
    /\ TiersOf(pArg) = { pOut }
    /\ pArg = 90000 => pOut = "Pinnacle"
    /\ pArg = 80000 => pOut = "Premier"
    /\ pArg = 70000 => pOut = "Benchmark"

\* the boundary score 80 was given the tier Premier
C14_Witness ==
  /\ pFn = "get_score_tier"
  /\ pPc = "out"
  /\ pArg = 80000
  /\ pOut = "Premier"

\* C15: for the same operator score and tail score, the trust score at
\* the greater operator age is not below the trust score at the lesser age.
C15_ConfidenceMonotone ==
  (pFn = "trust_score" /\ pPc = "out") =>
    pOut.at_age.trust_score <= pOut.at_older.trust_score

\* the same positive scores at two different ages gave a higher confidence
\* and a higher trust score at the greater age
C15_Witness ==
  /\ pFn = "trust_score"
  /\ pPc = "out"
  /\ pArg.age < pArg.older
  /\ pArg.operator_score > 0
  /\ pOut.at_age.confidence_score < pOut.at_older.confidence_score
  /\ pOut.at_age.trust_score < pOut.at_older.trust_score

\* the event carries an event_date that _parse_date reads
HasDate(event) ==
  ParseDate(event.event_date).ok

\* C16: an event without a readable event_date contributes zero to ORF and
\* to IHT and never makes them raise: both equal the sums over the dated
\* events, and no call leaves through an exception of ORF or IHT.
C16_UndatedEventsContributeZero ==
  \A c \in Calls :
    /\ pc[c] = "raised" => loc[c].raised_in \notin { "ORF", "IHT" }
    /\ pc[c] \in PastFleetClamp =>
         loc[c].orf = CalculateFleetOperationalRisk(
                        SelectSeq(inp[c].fleet_data.fleet_events, HasDate),
                        inp[c].fleet_data.fleet_size,
                        inp[c].fleet_data.operator_age_years, loc[c].nowFleet).v
    /\ pc[c] \in PastTailClamp =>
         loc[c].iht = CalculateTailIncidentHistory(
                        SelectSeq(inp[c].tail_data.tail_events, HasDate),
                        loc[c].nowTail).v

\* the text is a date in one of the forms YYYY-MM-DD and MM/DD/YYYY
IsPlainDate(value) ==
  /\ value.tag = "str"
  /\ StrptimeYMD(value.s).ok \/ StrptimeMDY(value.s).ok

\* C17: _parse_date returns None or a timezone-aware datetime, never a
\* naive one, and reads the dates written YYYY-MM-DD or MM/DD/YYYY.
C17_ParseAwareOrNone ==
  (pFn = "_parse_date" /\ pPc = "out") =>
    /\ pOut.ok => pOut.aware
    /\ IsPlainDate(pArg) => pOut.ok

\* C18: calculate_fleet_score computes no score from a negative fleet_size
\* or operator_age_years, and calculate_tail_score none from a negative
\* aircraft_age_years: such a call ends in a validation error.
C18_ContractValidated ==
  \A c \in Calls :
    /\ pc[c] \in PastFleetClamp =>
         /\ inp[c].fleet_data.fleet_size >= 0
         /\ inp[c].fleet_data.operator_age_years >= 0
    /\ pc[c] \in PastTailClamp =>
         inp[c].tail_data.aircraft_age_years >= 0

\* two calls were given the same FleetScoreData and TailScoreData
SameData(c1, c2) ==
  /\ inp[c1].fleet_data = inp[c2].fleet_data
  /\ inp[c1].tail_data = inp[c2].tail_data

OutcomeAlone(i, f, t) ==
  IF f.err # "" THEN [raised_in |-> f.at, numbers |-> NoResult.numbers]
  ELSE IF t.err # "" THEN [raised_in |-> t.at, numbers |-> NoResult.numbers]
  ELSE [raised_in |-> "",
        numbers   |-> NumericResult(
                        WithCompose(WithTail(WithFleet(NoLocals, f, 0), t, 0),
                                    ComposePhase(i.fleet_data.operator_age_years,
                                                 f.score, t.score)))]

\* the call on the arguments i, run alone, reading the clock on dayFleet in
\* calculate_fleet_score and on dayTail in calculate_tail_score
RunAlone(i, dayFleet, dayTail) ==
  OutcomeAlone(i, FleetPhase(i.fleet_data, dayFleet), TailPhase(i.tail_data, dayTail))

\* a finished call ended as it would have ended alone
EndsAsAlone(c) ==
  /\ pc[c] = "done" =>
       /\ RunAlone(inp[c], loc[c].nowFleet, loc[c].nowTail).raised_in = ""
       /\ ret[c].numbers = RunAlone(inp[c], loc[c].nowFleet, loc[c].nowTail).numbers
       /\ ret[c].ai_insights => inp[c].llm_client
  /\ pc[c] = "raised" =>
       loc[c].raised_in = RunAlone(inp[c], loc[c].nowFleet, loc[c].nowTail).raised_in

\* C20: calls that interleave on one calculator do not affect each other:
\* every finished call ended as it would have ended alone on its own
\* arguments and clock readings, no step changes the arguments of any call,
\* and no step changes the result of a call that has returned.
C20_CallsIsolated ==
  /\ [](\A c \in Calls : EndsAsAlone(c))
  /\ [][ /\ inp' = inp
         /\ \A c \in Calls : pc[c] = "done" => (pc'[c] = "done" /\ ret'[c] = ret[c])
       ]_vars

\* two calls on different arguments both returned, with different numbers;
\* call 2 ran calculate_tail_score while call 1 was suspended between its
\* calculate_fleet_score and its calculate_tail_score
C20_Witness ==
  /\ DOMAIN pc = { 1, 2 }
  /\ pc[1] = "done"
  /\ pc[2] = "done"
  /\ inp[1].llm_client
  /\ inp[1].fleet_data # inp[2].fleet_data
  /\ ret[1].numbers # ret[2].numbers
  /\ loc[1].nowFleet = Day0
  /\ loc[2].nowTail = Day0
  /\ loc[1].nowTail = Day0 + 1

\* the sum of the severities of the events, in Milli
SeveritySumMilli(events) ==
  LET F[i \in 0..Len(events)] ==
        IF i = 0 THEN 0 ELSE F[i-1] + 1000 * GetEventSeverity(events[i])
  IN  F[Len(events)]

\* C21: for fleet_size >= 1 and operator_age_years >= 0 the divisor VF
\* applied to the severities is at least 1, so ORF does not exceed the sum of
\* the severities of the events.
C21_VolatilityFactorAtLeastOne ==
  \A c \in Calls :
    ( /\ pc[c] \in PastFleetClamp
      /\ inp[c].fleet_data.fleet_events # << >>
      /\ inp[c].fleet_data.fleet_size >= 1
      /\ inp[c].fleet_data.operator_age_years >= 0 )
    => /\ VolatilityFactorE4(inp[c].fleet_data.fleet_size,
                             inp[c].fleet_data.operator_age_years) >= 10000
       /\ loc[c].orf <= SeveritySumMilli(inp[c].fleet_data.fleet_events)

\* a name is missing: None, or the empty string
NameMissing(v) ==
  v.tag # "str" \/ Len(v.s) = 0

\* the text a occurs in the text b at some offset, letter case aside
OccursIn(a, b) ==
  \E k \in 0..(Len(b) - Len(a)) :
    \A j \in 1..Len(a) : LowerCh(a[j]) = LowerCh(b[k + j])

\* the ownership points the rule gives a tail
OwnershipPoints(tail) ==
  IF NameMissing(tail.operator_name) \/ NameMissing(tail.registered_owner) THEN 0
  ELSE IF ~OccursIn(tail.operator_name.s, tail.registered_owner.s) THEN 0
  ELSE IF tail.fractional_owner THEN 5
  ELSE 10

\* C22: OST is 10 when the operator name occurs, letter case aside, in the
\* registered owner and the tail is not fractional, 5 when it occurs and the
\* tail is fractional, 0 otherwise, and 0 when either name is None or empty;
\* the ownership status raises nothing.
C22_OwnershipStatus ==
  \A c \in Calls :
    /\ pc[c] \in PastTailClamp => loc[c].ost = OwnershipPoints(inp[c].tail_data)
    /\ pc[c] = "raised" => loc[c].raised_in # "OST"

\* a returned call whose operator name is written in another letter case
\* than in the registered owner got 5 points for a fractional tail
C22_Witness ==
  \E c \in Calls :
    /\ pc[c] = "done"
    /\ inp[c].tail_data.operator_name = PyStr(NameB)
    /\ inp[c].tail_data.registered_owner = PyStr(<< "J","E","T"," ","C","O"," ","L","L","C" >>)
    /\ inp[c].tail_data.fractional_owner
    /\ ret[c].numbers.OST = 5

\* a filing that counts: its filing_date is read by _parse_date and lies
\* within the last 5 * 365 days
FilingCounts(filing, today) ==
  /\ ParseDate(filing.filing_date).ok
  /\ ParseDate(filing.filing_date).day > today - FiveYearsDays

\* the status of a filing contains satisfied, released, terminated or lapsed
FilingResolved(filing) ==
  \E k \in ResolvedKeywords : Contains(StrLower(GetOrEmpty(filing, "status")), k)

\* the day a resolved filing was resolved: its lapse_date when it is read,
\* its filing_date otherwise
ResolutionDay(filing) ==
  IF ParseDate(filing.lapse_date).ok THEN ParseDate(filing.lapse_date).day
  ELSE ParseDate(filing.filing_date).day

\* what one filing adds to FSF, in Milli
FilingValue(filing, today) ==
  IF ~FilingCounts(filing, today) THEN 0
  ELSE IF FilingResolved(filing) THEN FinancialDecayMilli(today - ResolutionDay(filing))
  ELSE 0 - 5 * FinancialDecayMilli(today - ParseDate(filing.filing_date).day)

FilingsValue(filings, today) ==
  LET F[i \in 0..Len(filings)] ==
        IF i = 0 THEN 0 ELSE F[i-1] + FilingValue(filings[i], today)
  IN  F[Len(filings)]

\* C26: without a disqualifying bankruptcy and with a non-empty filing list,
\* FSF is the sum over the filings whose filing_date is read and lies within
\* the last 5 years, each counted once: exp(-0.15 * dr) for a resolved one
\* (dr from the lapse date, or from the filing date when no lapse date is
\* read), -5 * exp(-0.15 * df) for any other; the other filings add nothing.
C26_FilingBranch ==
  \A c \in Calls :
    ( /\ pc[c] \in PastFleetClamp \cup { "raised" }
      /\ loc[c].raised_in # "ORF"
      /\ inp[c].fleet_data.ucc_filings # << >>
      /\ BankruptcyCheck(inp[c].fleet_data.bankruptcy_history, loc[c].nowFleet) = "none" )
    => /\ loc[c].raised_in # "FSF"
       /\ loc[c].fsf = FilingsValue(inp[c].fleet_data.ucc_filings, loc[c].nowFleet)

\* C27: the score_tier of the returned dict is the tier of the trust_score
\* of the same dict: score_tier = get_score_tier(result["trust_score"]).
C27_TierAgreesWithScore ==
  \A c \in Calls :
    pc[c] = "done" =>
      ret[c].numbers.score_tier = GetScoreTier(ret[c].numbers.trust_score)

\* C28: for operator_age_years >= 0 and OS, TS in [0, 100] the trust_score
\* and the fleet_score of lines 165-169 lie in [50, 100], and so do the
\* values round(x, 2) reports.
C28_CompositeWithinBounds ==
  (pFn = "trust_score" /\ pPc = "out") =>
    \A r \in { pOut.at_age, pOut.at_older } :
      /\ r.confidence_score \in 0..10000
      /\ r.trust_score \in 50000..100000
      /\ r.fleet_score \in 50000..100000
      /\ Round2(r.trust_score) \in 50000..100000
      /\ Round2(r.fleet_score) \in 50000..100000

\* both ends are met: a new operator with perfect scores stays at 50, the
\* same scores a hundred years on give 100
C28_Witness ==
  /\ pFn = "trust_score"
  /\ pPc = "out"
  /\ pArg.operator_score = 100000
  /\ pArg.tail_score = 100000
  /\ pOut.at_age.trust_score = 50000
  /\ pOut.at_older.trust_score = 100000
  /\ pOut.at_older.fleet_score = 100000

\* the fleet with its bankruptcy history taken away
WithoutBankruptcy(fleet) ==
  [fleet EXCEPT !.bankruptcy_history = << >>]

\* C29: a call on a fleet with an active or recent bankruptcy record has an
\* FSF, and an operator score, not above those of the same fleet without
\* bankruptcy history.
C29_BankruptcyNeverImproves ==
  \A c \in Calls :
    ( /\ pc[c] \in PastFleetClamp
      /\ BankruptcyCheck(inp[c].fleet_data.bankruptcy_history, loc[c].nowFleet) = "floor"
      /\ FleetPhase(WithoutBankruptcy(inp[c].fleet_data), loc[c].nowFleet).err = "" )
    => /\ loc[c].fsf <= FleetPhase(WithoutBankruptcy(inp[c].fleet_data), loc[c].nowFleet).fsf
       /\ loc[c].operator_score
            <= FleetPhase(WithoutBankruptcy(inp[c].fleet_data), loc[c].nowFleet).score

----------------------------------------------------------------------------
(* UCC verification service properties                                     *)

DistinctInOrder(results) ==
  SelectSeq([i \in 1..Len(results) |->
               IF results[i] # "" /\ \A j \in 1..(i - 1) : results[j] # results[i]
                 THEN results[i] ELSE ""],
            LAMBDA s : s # "")

\* the full name of the FAA state, when the options file has it
FaaName(faa_state) ==
  { o.text : o \in { StateOptions[i] : i \in { j \in DOMAIN StateOptions :
                                                StateOptions[j].abbreviation = faa_state } } }

\* the states to process: the distinct NTSB states, then the FAA state if
\* it is not among them
ExpectedQueue(results, faa_state) ==
  IF FaaName(faa_state) = {} \/ \E j \in 1..Len(results) : results[j] \in FaaName(faa_state)
    THEN DistinctInOrder(results)
    ELSE Append(DistinctInOrder(results), CHOOSE n \in FaaName(faa_state) : TRUE)

\* the state has a UCC URL in the options file
HasUccUrl(state_name) ==
  \E i \in DOMAIN StateOptions :
    StateOptions[i].text = state_name /\ StateOptions[i].value # ""

\* the states of the entries of visited_states, in order
VisitedStates ==
  [i \in 1..Len(vVisited) |-> vVisited[i].state]

\* C30: the states to process are the distinct NTSB states in the order of
\* first occurrence followed by the FAA state if not yet present; when the
\* loop is over visited_states holds exactly one entry for each of them
\* that has a UCC URL, in that order: a result when an attempt succeeded, or
\* a failed_after_retries record after 6 attempts have raised.
C30_OneEntryPerState ==
  /\ vPc \notin { "idle", "start" } => vQueue = ExpectedQueue(vNtsb, vFaa)
  /\ vPc = "closed" =>
       VisitedStates = SelectSeq(ExpectedQueue(vNtsb, vFaa), HasUccUrl)
  /\ \A i \in 1..Len(vVisited) :
       vVisited[i].status = "failed_after_retries" => vVisited[i].calls = 6

----------------------------------------------------------------------------
(* Normalizer properties                                                   *)

CanonicalStatuses ==
  { << "A","c","t","i","v","e" >>, << "L","a","p","s","e","d" >>,
    << "T","e","r","m","i","n","a","t","e","d" >>, UnknownStr }

\* C1: every filing returned by normalize_ucc_filings, whatever the source
\* kind, has a status that is one of Active, Lapsed, Terminated, Unknown.
C1_StatusCanonical ==
  nPc = "done" =>
    \A i \in 1..Len(nOut) :
      nOut[i].status.tag = "str" /\ nOut[i].status.s \in CanonicalStatuses

\* a str of the shape YYYY-MM-DD that names a calendar day
IsIsoDate(v) ==
  /\ v.tag = "str"
  /\ Len(v.s) = 10
  /\ FromIsoformat(v.s).ok

\* C2: every filing returned by normalize_ucc_filings has a filing_date that
\* is a YYYY-MM-DD string or the literal "Unknown".
C2_DateIsoOrUnknown ==
  nPc = "done" =>
    \A i \in 1..Len(nOut) :
      IsIsoDate(nOut[i].filing_date) \/ nOut[i].filing_date = PyStr(UnknownStr)

\* the mapping of status words: each word with its standard value
StatusTable ==
  { [word |-> << "a","c","t","i","v","e" >>, standard |-> << "A","c","t","i","v","e" >>],
    [word |-> << "f","i","l","e","d" >>, standard |-> << "A","c","t","i","v","e" >>],
    [word |-> << "c","u","r","r","e","n","t" >>, standard |-> << "A","c","t","i","v","e" >>],
    [word |-> << "v","a","l","i","d" >>, standard |-> << "A","c","t","i","v","e" >>],
    [word |-> << "l","a","p","s","e","d" >>, standard |-> << "L","a","p","s","e","d" >>],
    [word |-> << "e","x","p","i","r","e","d" >>, standard |-> << "L","a","p","s","e","d" >>],
    [word |-> << "i","n","a","c","t","i","v","e" >>, standard |-> << "L","a","p","s","e","d" >>],
    [word |-> << "t","e","r","m","i","n","a","t","e","d" >>, standard |-> << "T","e","r","m","i","n","a","t","e","d" >>],
    [word |-> << "c","a","n","c","e","l","l","e","d" >>, standard |-> << "T","e","r","m","i","n","a","t","e","d" >>],
    [word |-> << "d","i","s","c","h","a","r","g","e","d" >>, standard |-> << "T","e","r","m","i","n","a","t","e","d" >>],
    [word |-> << "r","e","l","e","a","s","e","d" >>, standard |-> << "T","e","r","m","i","n","a","t","e","d" >>] }

\* the standard value of a word of the table, in any letter case and with
\* blanks around it; no value for any other text
StandardOf(text) ==
  { e.standard : e \in { t \in StatusTable : t.word = Strip(StrLower(text)) } }

DigitsAt(text, i, n) ==
  IF Len(text) >= i + n - 1 /\ AllDigits(SubSeq(text, i, i + n - 1))
    THEN { DigitsVal(SubSeq(text, i, i + n - 1)) }
    ELSE {}

\* the month read at position i: the two characters there when they are
\* digits naming a month, otherwise 1
MonthAt(text, i) ==
  IF \E m \in DigitsAt(text, i, 2) : m \in 1..12
    THEN CHOOSE m \in DigitsAt(text, i, 2) : TRUE
    ELSE 1

\* the date read from an identifier: a four-digit year of 1990..2099 with
\* the month after it, otherwise a two-digit year with the month after it,
\* otherwise Unknown
DateOfIdentifier(id) ==
  IF id.tag # "str" THEN UnknownStr
  ELSE IF \E y \in DigitsAt(id.s, 1, 4) : y \in 1990..2099
    THEN ZeroPad(CHOOSE y \in DigitsAt(id.s, 1, 4) : TRUE, 4) \o << "-" >>
           \o ZeroPad(MonthAt(id.s, 5), 2) \o << "-","0","1" >>
  ELSE IF DigitsAt(id.s, 1, 2) # {}
    THEN ZeroPad((CHOOSE y \in DigitsAt(id.s, 1, 2) : TRUE)
                   + (IF (CHOOSE y \in DigitsAt(id.s, 1, 2) : TRUE) >= 90 THEN 1900 ELSE 2000), 4)
           \o << "-" >> \o ZeroPad(MonthAt(id.s, 3), 2) \o << "-","0","1" >>
  ELSE UnknownStr

\* C12: the filing date of a Florida record is the date read from its
\* identifier: year (four digits in 1990..2099, else two digits), the month
\* after it when it is one, 01 otherwise, day 01; Unknown only when no year
\* can be read.
C12_IdentifierDate ==
  (nPc = "done" /\ nState = "Florida") =>
    \A i \in 1..Len(nOut) :
      nOut[i].filing_date = PyStr(DateOfIdentifier(nFlow.debtors[i].uccNumber))

\* C23: under the source kind Florida every record of
\* raw_response.payload.debtors gives a filing whose filing_date is the date
\* read from the record's uccNumber, whose file_number is that uccNumber,
\* and whose secured_party and collateral are None.
C23_CompactShape ==
  (nPc = "done" /\ nState = "Florida") =>
    /\ Len(nOut) = Len(nFlow.debtors)
    /\ \A i \in 1..Len(nOut) :
         /\ nOut[i].filing_date = PyStr(DateOfIdentifier(nFlow.debtors[i].uccNumber))
         /\ nFlow.debtors[i].uccNumber.tag # "absent" =>
              nOut[i].file_number = nFlow.debtors[i].uccNumber
         /\ nOut[i].secured_party = PyNone
         /\ nOut[i].collateral = PyNone

\* the value of a key of a raw record, None when the key is absent
RawOrNone(record, key) ==
  IF record[key].tag = "absent" THEN PyNone ELSE record[key]

\* the raw filing_date of a record passed through _normalize_date; an absent
\* key counts as "Unknown", None and '' go through like any other value
DateThroughParse(record) ==
  IF record.filing_date.tag = "absent" THEN PyStr(UnknownStr)
  ELSE IF record.filing_date.tag = "none" THEN PyStr(NormalizeDate(<< >>))
  ELSE PyStr(NormalizeDate(record.filing_date.s))

\* the debtor_name of a record, or its debtor when debtor_name is absent
DebtorOf(record) ==
  IF record.debtor_name.tag # "absent" THEN record.debtor_name
  ELSE IF record.debtor.tag # "absent" THEN record.debtor
  ELSE PyStr(UnknownStr)

\* C24: under every source kind other than Florida each record of the
\* filings list gives a filing whose filing_date is the raw date passed
\* through _normalize_date, whose status is the raw status passed through
\* _normalize_status, whose debtor_name is the record's debtor_name or else
\* its debtor, and whose file_number, secured_party and collateral are the
\* raw values, None when absent.
C24_GenericShape ==
  (nPc = "done" /\ nState # "Florida") =>
    /\ Len(nOut) = Len(nFlow.filings)
    /\ \A i \in 1..Len(nOut) :
         /\ nOut[i].filing_date = DateThroughParse(nFlow.filings[i])
         /\ nOut[i].status =
              PyStr(NormalizeStatus(
                      IF nFlow.filings[i].status.tag = "absent"
                        THEN PyStr(UnknownStr) ELSE nFlow.filings[i].status))
         /\ nOut[i].debtor_name = DebtorOf(nFlow.filings[i])
         /\ nOut[i].file_number = RawOrNone(nFlow.filings[i], "file_number")
         /\ nOut[i].secured_party = RawOrNone(nFlow.filings[i], "secured_party")
         /\ nOut[i].collateral = RawOrNone(nFlow.filings[i], "collateral")

=============================================================================
